---- MODULE Spec2Model ----
(***************************************************************************)
(* The acquisition state machine of inst2txt: the crawl scheduler and      *)
(* account processor of hiker.py over the SQLite status store of           *)
(* db_manager.py, and the media downloader of download_reels.py.           *)
(*                                                                         *)
(* Two specifications share the status store variables:                    *)
(*   Spec    the crawl: hiker.main, one step per API request or commit,    *)
(*           with kills and re-runs;                                       *)
(*   SpecDL  the download manager: download_reels.main / process_user.     *)
(***************************************************************************)
EXTENDS Integers, Sequences, FiniteSets, TLC

(***************************************************************************)
(* Bounds of the model.                                                    *)
(***************************************************************************)
\* posts the first account has upstream
PostsUpstream == 7
\* accounts the first account follows upstream
FollowUpstream == 1
\* most items the API puts on one page
PageSize == 3
\* POLICY_REELS_TO_FETCH (hiker.py:279, default 60), scaled down
ReelsToFetch == 6
\* posts of the first account in the store when the downloads start
StoredPosts == 5
\* process_user's max_concurrent (download_reels.py:40, default 5), scaled down
\* so that a selected list of top_n ids spans several batches
max_concurrent == 2

(***************************************************************************)
(* Program constants.                                                      *)
(***************************************************************************)
max_retries == 5
max_following == 1001
min_followers == 10000
top_n == 5
\* download_reels.py: the failure count that triggers the pause
pause_after == 3

(***************************************************************************)
(* The accounts table as the bulk ingest created it (usernames only), in   *)
(* rowid order, and the upstream the API serves from.                      *)
(***************************************************************************)
AccountOrder == <<"a1", "a2">>
Accounts == {AccountOrder[k] : k \in 1..Len(AccountOrder)}

\* user["pk"] of the profile the API returns for a username
Pk(u) == IF u = "a1" THEN 1 ELSE 2

\* the i-th clip the API lists for the account with that pk
PostPk(pk, k) == pk * 100 + k
\* the second account is a small one: two clips, follows nobody
PostsOf(pk) == IF pk = 1 THEN PostsUpstream ELSE 2
FollowsOf(pk) == IF pk = 1 THEN FollowUpstream ELSE 0
Upstream(pk) == [k \in 1..PostsOf(pk) |-> PostPk(pk, k)]
AllPks == {PostPk(Pk(u), k) : u \in Accounts, k \in 1..PostsUpstream}
\* media["play_count"] of a clip: not monotone in list order, with ties
PlayCount(p) == ((p % 100) * 2) % 5
\* items of a clips page that carry no 'media' key (hiker.py:196)
NoMedia == {PostPk(2, 2)}
\* media without a video_url
NoVideoUrl == {PostPk(1, 4)}
\* media with a thumbnail_url
ThumbnailUrl == {PostPk(1, 1)}
\* the accounts a user follows, as the API lists them
FollowPk(pk, k) == pk * 1000 + k

\* the profile counts the API may report: at and just past each threshold
FollowingCounts == {max_following, max_following + 1}
FollowerCounts == {min_followers - 1, min_followers}

NoUser == [following_count |-> 0, follower_count |-> 0]
NoRow == [present |-> FALSE, user_pk |-> 0, play_count |-> 0, video_url |-> FALSE,
          thumbnail_url |-> FALSE, downloaded |-> FALSE, video_unavailable |-> FALSE]

\* no store operation has been called on its own
NoCall == [op |-> "", reels_data |-> {}, following_data |-> {}, user_pk |-> 0, pk |-> 0]

Range(s) == {s[k] : k \in 1..Len(s)}
Min(a, b) == IF a < b THEN a ELSE b
Prefix(s, n) == SubSeq(s, 1, Min(n, Len(s)))

VARIABLES
  \* ---- status store (instagram_accounts, reels, following)
  all_reels_fetched_hiker,      \* username -> BOOLEAN
  all_following_fetched_hiker,  \* username -> BOOLEAN
  reels_selected_list,          \* username -> sequence of pks (<<>> is NULL)
  insta_id,                     \* username -> pk (0 is NULL)
  reels_table,                  \* pk -> row
  following_table,              \* set of <<user_pk, following_pk>>
  \* ---- the hiker.py process
  pc, users_with_status, users_to_process, idx, attempts, user,
  reels, next_page_id, following_served, following_next_page_id, following,
  fill_users,
  \* ---- observation: of the account being processed (reqs, outcome, fetchEnd,
  \* accumulated), of the run (fillRan) and of the store (stranded)
  reqs, outcome, fetchEnd, accumulated, fillRan, stranded,
  afterFull,                    \* the run in hand was started after a run that returned
  \* ---- local storage: data/reels/<pk>.mp4 and data/thumbnails/<pk>.jpg
  video_file,                   \* pk -> "none" | "partial" | "complete"
  thumb_file,                   \* pk -> BOOLEAN (the file exists)
  \* ---- the download_reels.py process
  dl_pc, user_reel_map, reels_to_skip, uidx, reel_ids_to_download, i, reels_in_batch,
  j, tasks, results, finished, ridx, failed_video_pks, consecutive_video_failures,
  any_downloaded,
  \* ---- observation: terminal posts a video transfer or a mark was issued for
  reattempted,
  \* ---- observation: video transfers of the post Watched that failed so far
  \* (counted up to 2)
  failed_transfers,
  \* ---- observation: the store operation called last and its arguments
  call

dbVars == <<all_reels_fetched_hiker, all_following_fetched_hiker, reels_selected_list,
            insta_id, reels_table, following_table>>
memVars == <<pc, users_with_status, users_to_process, idx, attempts, user,
             reels, next_page_id, following_served,
             following_next_page_id, following, fill_users>>
obsVars == <<reqs, outcome, fetchEnd, accumulated, fillRan, stranded>>
fileVars == <<video_file, thumb_file>>
dlMem == <<dl_pc, user_reel_map, reels_to_skip, uidx, reel_ids_to_download, i,
           reels_in_batch, j, tasks, results, finished, ridx, failed_video_pks,
           consecutive_video_failures, any_downloaded>>
dlObs == <<reattempted, failed_transfers>>
dlVars == <<fileVars, dlMem, dlObs>>
vars == <<dbVars, memVars, obsVars, dlVars, afterFull, call>>

(***************************************************************************)
(* Status store operations (db_manager.py).                                *)
(***************************************************************************)
\* UPDATE instagram_accounts SET <the fields given> WHERE username = ?
\* `fields` is the record of keyword arguments that are not None.
update_account_fields_clears_other_flag(username, fields) ==
  /\ reels_selected_list' =
       IF "reels_selected_list" \in DOMAIN fields
       THEN [reels_selected_list EXCEPT ![username] = fields.reels_selected_list]
       ELSE reels_selected_list
  /\ all_reels_fetched_hiker' =
       [all_reels_fetched_hiker EXCEPT ![username] =
          "all_reels_fetched_hiker" \in DOMAIN fields /\ fields.all_reels_fetched_hiker]
  /\ all_following_fetched_hiker' =
       [all_following_fetched_hiker EXCEPT ![username] =
          "all_following_fetched_hiker" \in DOMAIN fields
          /\ fields.all_following_fetched_hiker]
  /\ UNCHANGED insta_id

update_account_fields(username, fields) ==
  /\ reels_selected_list' =
       IF "reels_selected_list" \in DOMAIN fields
       THEN [reels_selected_list EXCEPT ![username] = fields.reels_selected_list]
       ELSE reels_selected_list
  /\ all_reels_fetched_hiker' =
       IF "all_reels_fetched_hiker" \in DOMAIN fields
       THEN [all_reels_fetched_hiker EXCEPT ![username] = fields.all_reels_fetched_hiker]
       ELSE all_reels_fetched_hiker
  /\ all_following_fetched_hiker' =
       IF "all_following_fetched_hiker" \in DOMAIN fields
       THEN [all_following_fetched_hiker EXCEPT
               ![username] = fields.all_following_fetched_hiker]
       ELSE all_following_fetched_hiker
  /\ UNCHANGED insta_id

\* A replace-style upsert: the row is rewritten with the column defaults.
upsert_account_replaces_row(username, pk_) ==
  /\ insta_id' = [insta_id EXCEPT ![username] = pk_]
  /\ reels_selected_list' = [reels_selected_list EXCEPT ![username] = <<>>]
  /\ all_reels_fetched_hiker' = [all_reels_fetched_hiker EXCEPT ![username] = FALSE]
  /\ all_following_fetched_hiker' =
       [all_following_fetched_hiker EXCEPT ![username] = FALSE]

\* INSERT ... ON CONFLICT(username) DO UPDATE SET insta_id, counts, ...,
\* reels_selected_list = excluded.reels_selected_list (NULL: hiker.py passes none).
\* The two completion flags are not among the updated columns.
upsert_account(username, pk_) ==
  /\ insta_id' = [insta_id EXCEPT ![username] = pk_]
  /\ reels_selected_list' = [reels_selected_list EXCEPT ![username] = <<>>]
  /\ UNCHANGED <<all_reels_fetched_hiker, all_following_fetched_hiker>>

\* the media of a clip as the API returns it, reduced to the columns of the model
Media(p) == [pk |-> p, play_count |-> PlayCount(p), video_url |-> p \notin NoVideoUrl,
             thumbnail_url |-> p \in ThumbnailUrl]
MediaOf(S) == {Media(p) : p \in S}

\* A save that replaces the row on conflict (INSERT OR REPLACE).
save_reels_replaces_row(reels_data, user_pk) ==
  reels_table' =
    [p \in AllPks |->
       IF \A m \in reels_data : m.pk # p THEN reels_table[p]
       ELSE LET m == CHOOSE m \in reels_data : m.pk = p
            IN [present |-> TRUE, user_pk |-> user_pk, play_count |-> m.play_count,
                video_url |-> m.video_url, thumbnail_url |-> m.thumbnail_url,
                downloaded |-> FALSE, video_unavailable |-> FALSE]]

\* INSERT INTO reels ... ON CONFLICT(pk) DO UPDATE SET the engagement counters,
\* thumbnail_url, video_url, caption.  reels_data: a set of media, one per pk.
save_reels(reels_data, user_pk) ==
  reels_table' =
    [p \in AllPks |->
       IF \A m \in reels_data : m.pk # p THEN reels_table[p]
       ELSE LET m == CHOOSE m \in reels_data : m.pk = p
            IN IF reels_table[p].present
               THEN [reels_table[p] EXCEPT !.play_count = m.play_count,
                                           !.video_url = m.video_url,
                                           !.thumbnail_url = m.thumbnail_url]
               ELSE [present |-> TRUE, user_pk |-> user_pk, play_count |-> m.play_count,
                     video_url |-> m.video_url, thumbnail_url |-> m.thumbnail_url,
                     downloaded |-> FALSE, video_unavailable |-> FALSE]]

\* A plain INSERT: a duplicate pair raises, and the batch is rolled back.
save_following_plain_insert(following_data, user_pk) ==
  following_table' =
    IF \E f \in following_data : <<user_pk, f>> \in following_table
    THEN following_table
    ELSE following_table \cup {<<user_pk, f>> : f \in following_data}

\* INSERT OR IGNORE INTO following
save_following(following_data, user_pk) ==
  following_table' = following_table \cup {<<user_pk, f>> : f \in following_data}

RowsOf(user_pk) ==
  {p \in AllPks : reels_table[p].present /\ reels_table[p].user_pk = user_pk}

\* The sequences ORDER BY play_count DESC LIMIT n may return: ties in any order.
RECURSIVE TopSeqs(_, _)
TopSeqs(S, n) ==
  IF n = 0 \/ S = {} THEN {<<>>}
  ELSE LET best == {p \in S : \A q \in S : reels_table[q].play_count
                                             <= reels_table[p].play_count}
       IN UNION {{<<p>> \o t : t \in TopSeqs(S \ {p}, n - 1)} : p \in best}

get_top_reels(user_pk, limit) == TopSeqs(RowsOf(user_pk), limit)

\* SELECT username, insta_id, flags FROM instagram_accounts
get_hiker_processing_status_for_all_users ==
  [u \in Accounts |-> [reels_done |-> all_reels_fetched_hiker[u],
                       following_done |-> all_following_fetched_hiker[u]]]

\* accounts with NULL or '' reels_selected_list joined to at least one reel
FillCandidates ==
  {u \in Accounts : reels_selected_list[u] = <<>> /\ RowsOf(insta_id[u]) # {}}

(***************************************************************************)
(* The crawl process (hiker.py).                                           *)
(***************************************************************************)
locals == <<attempts, user, reels, next_page_id, following_served,
            following_next_page_id, following>>
runVars == <<users_with_status, users_to_process, idx, fill_users>>
acctObs == <<reqs, outcome, fetchEnd, accumulated>>
acctVars == <<all_reels_fetched_hiker, all_following_fetched_hiker, reels_selected_list,
              insta_id>>

NoStatus == [u \in Accounts |-> [reels_done |-> FALSE, following_done |-> FALSE]]
NoSets == [u \in Accounts |-> {}]

\* no download process, nothing on local storage
DLIdle ==
  /\ video_file = [p \in AllPks |-> "none"]
  /\ thumb_file = [p \in AllPks |-> FALSE]
  /\ dl_pc = "idle"
  /\ user_reel_map = <<>>
  /\ reels_to_skip = {}
  /\ uidx = 0
  /\ reel_ids_to_download = <<>>
  /\ i = 0
  /\ reels_in_batch = <<>>
  /\ j = 0
  /\ tasks = <<>>
  /\ results = <<>>
  /\ finished = {}
  /\ ridx = 0
  /\ failed_video_pks = <<>>
  /\ consecutive_video_failures = 0
  /\ any_downloaded = FALSE
  /\ reattempted = {}
  /\ failed_transfers = 0

\* no crawl process
CrawlIdle ==
  /\ pc = "idle"
  /\ users_with_status = NoStatus
  /\ users_to_process = <<>>
  /\ idx = 0
  /\ attempts = 0
  /\ user = NoUser
  /\ reels = <<>>
  /\ next_page_id = FALSE
  /\ following_served = 0
  /\ following_next_page_id = FALSE
  /\ following = {}
  /\ fill_users = {}
  /\ reqs = {}
  /\ outcome = ""
  /\ fetchEnd = ""
  /\ accumulated = 0
  /\ fillRan = FALSE
  /\ stranded = NoSets
  /\ afterFull = FALSE
  /\ call = NoCall

Init ==
  /\ all_reels_fetched_hiker = [u \in Accounts |-> FALSE]
  /\ all_following_fetched_hiker = [u \in Accounts |-> FALSE]
  /\ reels_selected_list = [u \in Accounts |-> <<>>]
  /\ insta_id = [u \in Accounts |-> 0]
  /\ reels_table = [p \in AllPks |-> NoRow]
  /\ following_table = {}
  /\ CrawlIdle
  /\ DLIdle

Stopped == pc \in {"idle", "done", "aborted", "killed"}

\* the locals of process_user_with_hiker before it is entered
Locals0 ==
  /\ attempts' = 0
  /\ user' = NoUser
  /\ reels' = <<>>
  /\ next_page_id' = FALSE
  /\ following_served' = 0
  /\ following_next_page_id' = FALSE
  /\ following' = {}

AcctObs0 ==
  /\ reqs' = {}
  /\ outcome' = ""
  /\ fetchEnd' = ""
  /\ accumulated' = 0

cur == users_to_process[idx].username
fetch_reels == ~users_to_process[idx].reels_done
fetch_following == ~users_to_process[idx].following_done

BothDone == [all_reels_fetched_hiker |-> TRUE, all_following_fetched_hiker |-> TRUE]
ReelsDone == [all_reels_fetched_hiker |-> TRUE]
FollowingDone == [all_following_fetched_hiker |-> TRUE]

\* A scheduler that passes fetch_reels=True for every pending user.
StartRunRefetchesReels ==
  /\ UNCHANGED <<dlVars, call>>
  /\ afterFull' = (pc = "done")
  /\ Stopped
  /\ pc' = "loop"
  /\ users_with_status' = get_hiker_processing_status_for_all_users
  /\ LET Pending(u) == ~(all_reels_fetched_hiker[u] /\ all_following_fetched_hiker[u])
         names == SelectSeq(AccountOrder, Pending)
     IN users_to_process' =
          [k \in 1..Len(names) |->
             [username |-> names[k],
              reels_done |-> FALSE,
              following_done |-> all_following_fetched_hiker[names[k]]]]
  /\ idx' = 1
  /\ fill_users' = {}
  /\ Locals0
  /\ AcctObs0
  /\ fillRan' = FALSE
  /\ UNCHANGED <<dbVars, stranded>>

\* A scheduler that keeps every user, complete or not.
StartRunKeepsAll ==
  /\ UNCHANGED <<dlVars, call>>
  /\ afterFull' = (pc = "done")
  /\ Stopped
  /\ pc' = "loop"
  /\ users_with_status' = get_hiker_processing_status_for_all_users
  /\ users_to_process' =
       [k \in 1..Len(AccountOrder) |->
          [username |-> AccountOrder[k],
           reels_done |-> all_reels_fetched_hiker[AccountOrder[k]],
           following_done |-> all_following_fetched_hiker[AccountOrder[k]]]]
  /\ idx' = 1
  /\ fill_users' = {}
  /\ Locals0
  /\ AcctObs0
  /\ fillRan' = FALSE
  /\ UNCHANGED <<dbVars, stranded>>

\* main, lines 257-296: a process starts, reads the status of all users and keeps
\* those with a false completion flag
StartRun ==
  /\ UNCHANGED <<dlVars, call>>
  /\ afterFull' = (pc = "done")
  /\ Stopped
  /\ pc' = "loop"
  /\ users_with_status' = get_hiker_processing_status_for_all_users
  /\ LET Pending(u) == ~(all_reels_fetched_hiker[u] /\ all_following_fetched_hiker[u])
         names == SelectSeq(AccountOrder, Pending)
     IN users_to_process' =
          [k \in 1..Len(names) |->
             [username |-> names[k],
              reels_done |-> all_reels_fetched_hiker[names[k]],
              following_done |-> all_following_fetched_hiker[names[k]]]]
  /\ idx' = 1
  /\ fill_users' = {}
  /\ Locals0
  /\ AcctObs0
  /\ fillRan' = FALSE
  /\ UNCHANGED <<dbVars, stranded>>

\* main, lines 298-312: process_user_with_hiker is entered for the next user
Loop ==
  /\ UNCHANGED <<dlVars, afterFull, call>>
  /\ pc = "loop"
  /\ idx <= Len(users_to_process)
  /\ pc' = "fetch_user"
  /\ Locals0
  /\ AcctObs0
  /\ UNCHANGED <<dbVars, runVars, fillRan, stranded>>

\* A retry loop that allows one attempt more.
MayAttemptOnceMore == attempts <= max_retries

\* the condition of the retry loops (lines 57, 147, 168, 224)
MayAttempt == attempts < max_retries

\* what user_by_username_v2 may do: raise, answer "not found", or return a profile
ProfileResponses ==
  {[kind |-> k, following_count |-> 0, follower_count |-> 0] : k \in {"error", "not_found"}}
    \cup {[kind |-> "ok", following_count |-> a, follower_count |-> b] :
            a \in FollowingCounts, b \in FollowerCounts}

\* A lookup that takes "not found" for a profile without counts.
UserNotFoundContinues ==
  /\ pc' = "upsert"
  /\ outcome' = "not_found"
  /\ UNCHANGED acctVars

\* fetch_user_with_retry, lines 70-77, and process_user_with_hiker, lines
\* 107-108: the user is not found
UserNotFound ==
  /\ update_account_fields(cur, BothDone)
  /\ pc' = "sleep"
  /\ outcome' = "not_found"

\* fetch_user_with_retry, lines 57-86: one attempt
FetchUserAttempt ==
  /\ UNCHANGED <<dlVars, afterFull, call>>
  /\ pc = "fetch_user"
  /\ MayAttempt
  /\ reqs' = reqs \cup {"profile"}
  /\ \E r \in ProfileResponses :
       CASE r.kind = "error" ->
              /\ attempts' = attempts + 1
              /\ UNCHANGED <<dbVars, pc, user, outcome>>
         [] r.kind = "not_found" ->
              /\ UserNotFound
              /\ UNCHANGED <<reels_table, following_table, attempts, user>>
         [] OTHER ->
              /\ user' = [following_count |-> r.following_count,
                          follower_count |-> r.follower_count]
              /\ pc' = "upsert"
              /\ UNCHANGED <<dbVars, attempts, outcome>>
  /\ UNCHANGED <<runVars, reels, next_page_id, following_served, following_next_page_id, following,
                 fetchEnd, accumulated, fillRan, stranded>>

\* A profile retry exhaustion that returns None instead of exiting.
FetchUserExhaustedReturnsNone ==
  /\ UNCHANGED <<dlVars, afterFull, call>>
  /\ pc = "fetch_user"
  /\ ~MayAttempt
  /\ pc' = "sleep"
  /\ outcome' = "profile_exhausted"
  /\ UNCHANGED <<dbVars, runVars, locals, reqs, fetchEnd, accumulated, fillRan, stranded>>

\* fetch_user_with_retry, lines 87-88: exit(1) raises SystemExit, which the
\* `except Exception` of process_user_with_hiker does not catch: the process ends
\* where it stands.
FetchUserExhausted ==
  /\ UNCHANGED <<dlVars, afterFull, call>>
  /\ pc = "fetch_user"
  /\ ~MayAttempt
  /\ pc' = "aborted"
  /\ outcome' = "profile_exhausted"
  /\ UNCHANGED <<dbVars, runVars, locals, reqs, fetchEnd, accumulated, fillRan, stranded>>

\* process_user_with_hiker, lines 111-127 (and the avatar download of 130, which
\* touches only a local file)
Upsert ==
  /\ UNCHANGED <<dlVars, afterFull, call>>
  /\ pc = "upsert"
  /\ upsert_account(cur, Pk(cur))
  /\ pc' = "skip_check"
  /\ UNCHANGED <<reels_table, following_table, obsVars, runVars, locals>>

\* A skip policy whose comparisons include the thresholds.
SkipAccountInclusive(following_count, followers_count) ==
  following_count >= max_following \/ followers_count <= min_followers

\* the skip policy, line 133
SkipAccount(following_count, followers_count) ==
  following_count > max_following \/ followers_count < min_followers

\* process_user_with_hiker, lines 133-141 and 214-218: skip the account, or enter
\* the reels phase, or (reels already complete) the following phase
SkipPolicy ==
  /\ UNCHANGED <<dlVars, afterFull, call>>
  /\ pc = "skip_check"
  /\ IF SkipAccount(user.following_count, user.follower_count)
     THEN /\ update_account_fields(cur, BothDone)
          /\ pc' = "sleep"
          /\ outcome' = "skipped"
     ELSE /\ pc' = IF fetch_reels THEN "clips_first"
                   ELSE IF fetch_following THEN "following" ELSE "sleep"
          /\ outcome' = IF ~fetch_reels /\ ~fetch_following THEN "returned" ELSE outcome
          /\ UNCHANGED acctVars
  \* the retry loops of the phases start their own count (lines 146, 223)
  /\ attempts' = 0
  /\ UNCHANGED <<reels_table, following_table, runVars, user, reels, next_page_id,
                 following_served, following_next_page_id, following, reqs, fetchEnd,
                 accumulated, fillRan, stranded>>

\* what user_clips_v2 may do after `served` items of the account's list: raise
\* httpx.RequestError, raise something else, answer without 'response'/'items', or
\* return the next n items with or without next_page_id
ClipsResponses(pk_, served) ==
  {[kind |-> k, n |-> 0, cursor |-> FALSE] : k \in {"request_error", "exception", "malformed"}}
    \cup {[kind |-> "ok", n |-> n, cursor |-> c] :
            n \in 0..Min(PageSize, PostsOf(pk_) - served), c \in BOOLEAN}

Items(pk_, from, n) == SubSeq(Upstream(pk_), from + 1, from + n)

\* A first page whose emptiness completes the reels only.
ZeroReelsMarksReelsOnly ==
  /\ update_account_fields(cur, ReelsDone)
  /\ pc' = "following"
  /\ outcome' = "zero_reels"

\* process_user_with_hiker, lines 159-162: no item on the first page
ZeroReels ==
  /\ update_account_fields(cur, BothDone)
  /\ pc' = "sleep"
  /\ outcome' = "zero_reels"

\* A page loop that goes on for as long as there is a cursor.
MorePagesIgnoresTarget(n, cursor) == cursor

\* process_user_with_hiker, line 166: a further page is requested only while fewer
\* than reels_to_fetch reels are accumulated and the last answer carried a cursor
MorePages(n, cursor) == n < ReelsToFetch /\ cursor

\* process_user_with_hiker, lines 147-166: one attempt at the first page
ClipsFirstAttempt ==
  /\ UNCHANGED <<dlVars, afterFull, call>>
  /\ pc = "clips_first"
  /\ MayAttempt
  /\ reqs' = reqs \cup {"clips"}
  /\ \E r \in ClipsResponses(Pk(cur), 0) :
       CASE r.kind = "request_error" ->
              /\ attempts' = attempts + 1
              /\ UNCHANGED <<acctVars, pc, reels, next_page_id, outcome, fetchEnd>>
         [] r.kind = "exception" ->
              \* caught at line 190 with reels still empty
              /\ pc' = "save"
              /\ fetchEnd' = "exception"
              /\ UNCHANGED <<acctVars, attempts, reels, next_page_id, outcome>>
         [] r.kind = "malformed" \/ (r.kind = "ok" /\ r.n = 0) ->
              /\ ZeroReels
              /\ UNCHANGED <<attempts, reels, next_page_id, fetchEnd>>
         [] OTHER ->
              /\ reels' = Items(Pk(cur), 0, r.n)
              /\ next_page_id' = r.cursor
              /\ attempts' = 0
              /\ IF MorePages(r.n, r.cursor)
                 THEN pc' = "clips_page" /\ UNCHANGED fetchEnd
                 ELSE /\ pc' = "save"
                      /\ fetchEnd' = IF r.cursor THEN "target" ELSE "no_cursor"
              /\ UNCHANGED <<acctVars, outcome>>
  /\ UNCHANGED <<reels_table, following_table, runVars, user, following_served,
                 following_next_page_id, following, accumulated, fillRan, stranded>>

\* A first-page retry exhaustion handled like that of a later page.
ClipsFirstExhaustedMarks ==
  /\ UNCHANGED <<dlVars, afterFull, call>>
  /\ pc = "clips_first"
  /\ ~MayAttempt
  /\ update_account_fields(cur, ReelsDone)
  /\ pc' = "sleep"
  /\ outcome' = "first_page_exhausted"
  /\ UNCHANGED <<reels_table, following_table, runVars, locals, reqs, fetchEnd,
                 accumulated, fillRan, stranded>>

\* process_user_with_hiker, lines 155-157: "Skipping user." and return
ClipsFirstExhausted ==
  /\ UNCHANGED <<dlVars, afterFull, call>>
  /\ pc = "clips_first"
  /\ ~MayAttempt
  /\ pc' = "sleep"
  /\ outcome' = "first_page_exhausted"
  /\ UNCHANGED <<dbVars, runVars, locals, reqs, fetchEnd, accumulated, fillRan, stranded>>

\* process_user_with_hiker, lines 166-189: one attempt at a later page
ClipsPageAttempt ==
  /\ UNCHANGED <<dlVars, afterFull, call>>
  /\ pc = "clips_page"
  /\ MayAttempt
  /\ reqs' = reqs \cup {"clips"}
  /\ \E r \in ClipsResponses(Pk(cur), Len(reels)) :
       CASE r.kind = "request_error" ->
              /\ attempts' = attempts + 1
              /\ UNCHANGED <<acctVars, pc, reels, next_page_id, fetchEnd>>
         [] r.kind = "exception" ->
              /\ pc' = "save"
              /\ fetchEnd' = "exception"
              /\ UNCHANGED <<acctVars, attempts, reels, next_page_id>>
         [] r.kind = "malformed" ->
              /\ update_account_fields(cur, ReelsDone)
              /\ pc' = "save"
              /\ fetchEnd' = "malformed"
              /\ UNCHANGED <<attempts, reels, next_page_id>>
         [] OTHER ->
              /\ reels' = reels \o Items(Pk(cur), Len(reels), r.n)
              /\ next_page_id' = r.cursor
              /\ attempts' = 0
              /\ IF ~r.cursor
                 THEN /\ update_account_fields(cur, ReelsDone)
                      /\ pc' = "save"
                      /\ fetchEnd' = "no_cursor"
                 ELSE /\ UNCHANGED acctVars
                      /\ IF MorePages(Len(reels'), r.cursor)
                         THEN pc' = "clips_page" /\ UNCHANGED fetchEnd
                         ELSE pc' = "save" /\ fetchEnd' = "target"
  /\ UNCHANGED <<reels_table, following_table, runVars, user, following_served,
                 following_next_page_id, following, outcome, accumulated, fillRan, stranded>>

\* A later-page retry exhaustion handled like that of the first page.
ClipsPageExhaustedSkipsUser ==
  /\ UNCHANGED <<dlVars, afterFull, call>>
  /\ pc = "clips_page"
  /\ ~MayAttempt
  /\ pc' = "sleep"
  /\ fetchEnd' = "exhausted"
  /\ UNCHANGED <<dbVars, runVars, locals, reqs, outcome, accumulated, fillRan, stranded>>

\* process_user_with_hiker, lines 176-179
ClipsPageExhausted ==
  /\ UNCHANGED <<dlVars, afterFull, call>>
  /\ pc = "clips_page"
  /\ ~MayAttempt
  /\ update_account_fields(cur, ReelsDone)
  /\ pc' = "save"
  /\ fetchEnd' = "exhausted"
  /\ UNCHANGED <<reels_table, following_table, runVars, locals, reqs, outcome,
                 accumulated, fillRan, stranded>>

\* the media of the items kept after truncation (lines 192-201)
ReelsData(rs) == Range(Prefix(rs, ReelsToFetch)) \ NoMedia

\* A save that runs before the truncation to the target.
SaveReelsUntruncated ==
  /\ UNCHANGED <<dlVars, afterFull, call>>
  /\ pc = "save"
  /\ reels' = reels
  /\ accumulated' = Len(reels)
  /\ IF reels' # <<>>
     THEN /\ IF Range(reels) \ NoMedia # {}
             THEN save_reels(MediaOf(Range(reels) \ NoMedia), Pk(cur))
             ELSE UNCHANGED reels_table
          /\ pc' = "top"
     ELSE /\ pc' = "mark_reels"
          /\ UNCHANGED reels_table
  /\ UNCHANGED <<acctVars, following_table, runVars, attempts, user, next_page_id,
                 following_served, following_next_page_id, following, reqs, outcome, fetchEnd,
                 fillRan, stranded>>

\* process_user_with_hiker, lines 192-203: truncate and save
SaveReels ==
  /\ UNCHANGED <<dlVars, afterFull, call>>
  /\ pc = "save"
  /\ reels' = Prefix(reels, ReelsToFetch)
  /\ accumulated' = Len(reels)
  /\ IF reels' # <<>>
     THEN /\ IF ReelsData(reels) # {}
             THEN save_reels(MediaOf(ReelsData(reels)), Pk(cur))
             ELSE UNCHANGED reels_table
          /\ pc' = "top"
     ELSE /\ pc' = "mark_reels"
          /\ UNCHANGED reels_table
  /\ UNCHANGED <<acctVars, following_table, runVars, attempts, user, next_page_id,
                 following_served, following_next_page_id, following, reqs, outcome, fetchEnd,
                 fillRan, stranded>>

\* A failed write of the reels that still marks the reels as fetched.
SaveReelsFailsMarksReels ==
  /\ UNCHANGED <<dlVars, afterFull, call>>
  /\ pc = "save"
  /\ ReelsData(reels) # {}
  /\ accumulated' = Len(reels)
  /\ update_account_fields(cur, ReelsDone)
  /\ pc' = "sleep"
  /\ outcome' = "persist_error"
  /\ UNCHANGED <<reels_table, following_table, runVars, locals, reqs, fetchEnd, fillRan,
                 stranded>>

\* process_user_with_hiker, line 202, and save_reels, lines 437-439: the write
\* raises (an sqlite3 error); save_reels re-raises, the handler of line 254 logs
\* the error and the function returns
SaveReelsFails ==
  /\ UNCHANGED <<dlVars, afterFull, call>>
  /\ pc = "save"
  /\ ReelsData(reels) # {}
  /\ accumulated' = Len(reels)
  /\ pc' = "sleep"
  /\ outcome' = "persist_error"
  /\ UNCHANGED <<dbVars, runVars, locals, reqs, fetchEnd, fillRan, stranded>>

\* process_user_with_hiker, lines 204-211: select the top reels
SelectTop ==
  /\ UNCHANGED <<dlVars, afterFull, call>>
  /\ pc = "top"
  /\ \E t \in get_top_reels(Pk(cur), top_n) :
       IF t # <<>>
       THEN update_account_fields(cur, [reels_selected_list |-> t])
       ELSE UNCHANGED acctVars
  /\ pc' = "mark_reels"
  /\ UNCHANGED <<reels_table, following_table, obsVars, runVars, locals>>

\* process_user_with_hiker, lines 212-218: mark the reels complete and go on to
\* the following phase
MarkReels ==
  /\ UNCHANGED <<dlVars, afterFull, call>>
  /\ pc = "mark_reels"
  /\ update_account_fields(cur, ReelsDone)
  /\ pc' = IF fetch_following THEN "following" ELSE "sleep"
  /\ outcome' = IF fetch_following THEN outcome ELSE "returned"
  /\ attempts' = 0
  /\ UNCHANGED <<reels_table, following_table, runVars, user, reels, next_page_id,
                 following_served, following_next_page_id, following, reqs, fetchEnd, accumulated,
                 fillRan, stranded>>

\* what user_following_v2 may do after `served` users of the account's list
FollowingResponses(pk_, served) ==
  {[kind |-> k, n |-> 0, cursor |-> FALSE] : k \in {"request_error", "exception", "malformed"}}
    \cup {[kind |-> "ok", n |-> n, cursor |-> c] :
            n \in 0..Min(PageSize, FollowsOf(pk_) - served), c \in BOOLEAN}

\* A page whose users are not saved.
SavePageSkipped(following_data) == UNCHANGED following_table

\* process_user_with_hiker, lines 240-242: the users of a page are saved, if any
SavePage(following_data) ==
  IF following_data # {}
  THEN save_following(following_data, Pk(cur))
  ELSE UNCHANGED following_table

\* process_user_with_hiker, lines 221-243: one attempt at a following page; the
\* users of a page are saved as soon as it arrives
FollowingAttempt ==
  /\ UNCHANGED <<dlVars, afterFull, call>>
  /\ pc = "following"
  /\ MayAttempt
  /\ reqs' = reqs \cup {"following"}
  /\ \E r \in FollowingResponses(Pk(cur), following_served) :
       CASE r.kind = "request_error" ->
              /\ attempts' = attempts + 1
              /\ UNCHANGED <<dbVars, pc, following_served, following_next_page_id, following, outcome>>
         [] r.kind = "exception" ->
              \* not an httpx.RequestError: caught at line 254, the function returns
              /\ pc' = "sleep"
              /\ outcome' = "error"
              /\ UNCHANGED <<dbVars, attempts, following_served, following_next_page_id, following>>
         [] r.kind = "malformed" ->
              /\ update_account_fields(cur, FollowingDone)
              /\ pc' = "sleep"
              /\ outcome' = "returned"
              /\ UNCHANGED <<reels_table, following_table, attempts, following_served,
                             following_next_page_id, following>>
         [] OTHER ->
              /\ following' = {FollowPk(Pk(cur), k) :
                                  k \in (following_served + 1)..(following_served + r.n)}
              /\ SavePage(following')
              /\ following_served' = following_served + r.n
              /\ following_next_page_id' = r.cursor
              /\ pc' = "following_cursor"
              /\ UNCHANGED <<acctVars, reels_table, attempts, outcome>>
  /\ UNCHANGED <<runVars, user, reels, next_page_id, fetchEnd, accumulated, fillRan,
                 stranded>>

\* A following loop that takes a page without users for the last page.
FollowingCursorStopsOnEmpty ==
  /\ UNCHANGED <<dlVars, afterFull, call>>
  /\ pc = "following_cursor"
  /\ IF ~following_next_page_id \/ following = {}
     THEN /\ update_account_fields(cur, FollowingDone)
          /\ pc' = "sleep"
          /\ outcome' = "returned"
     ELSE /\ pc' = "following"
          /\ UNCHANGED <<acctVars, outcome>>
  /\ attempts' = 0
  /\ UNCHANGED <<reels_table, following_table, runVars, user, reels, next_page_id,
                 following_served, following_next_page_id, following, reqs, fetchEnd,
                 accumulated, fillRan, stranded>>

\* process_user_with_hiker, lines 243-250: last page, or go on to the next
FollowingCursor ==
  /\ UNCHANGED <<dlVars, afterFull, call>>
  /\ pc = "following_cursor"
  /\ IF ~following_next_page_id
     THEN /\ update_account_fields(cur, FollowingDone)
          /\ pc' = "sleep"
          /\ outcome' = "returned"
     ELSE /\ pc' = "following"
          /\ UNCHANGED <<acctVars, outcome>>
  /\ attempts' = 0
  /\ UNCHANGED <<reels_table, following_table, runVars, user, reels, next_page_id,
                 following_served, following_next_page_id, following, reqs, fetchEnd, accumulated,
                 fillRan, stranded>>

\* A following retry exhaustion that ends the process and sets no flag.
FollowingExhaustedAborts ==
  /\ UNCHANGED <<dlVars, afterFull, call>>
  /\ pc = "following"
  /\ ~MayAttempt
  /\ pc' = "aborted"
  /\ outcome' = "following_exhausted"
  /\ UNCHANGED <<dbVars, runVars, locals, reqs, fetchEnd, accumulated, fillRan, stranded>>

\* process_user_with_hiker, lines 232-235
FollowingExhausted ==
  /\ UNCHANGED <<dlVars, afterFull, call>>
  /\ pc = "following"
  /\ ~MayAttempt
  /\ update_account_fields(cur, FollowingDone)
  /\ pc' = "sleep"
  /\ outcome' = "returned"
  /\ UNCHANGED <<reels_table, following_table, runVars, locals, reqs, fetchEnd,
                 accumulated, fillRan, stranded>>

\* A loop that takes the same user again after the pause.
SleepRepeats ==
  /\ UNCHANGED <<dlVars, afterFull, call>>
  /\ pc = "sleep"
  /\ pc' = "loop"
  /\ idx' = idx
  /\ Locals0
  /\ AcctObs0
  /\ UNCHANGED <<dbVars, users_with_status, users_to_process, fill_users, fillRan,
                 stranded>>

\* main, lines 313-316: the pause between two users
Sleep ==
  /\ UNCHANGED <<dlVars, afterFull, call>>
  /\ pc = "sleep"
  /\ pc' = "loop"
  /\ idx' = idx + 1
  /\ Locals0
  /\ AcctObs0
  /\ UNCHANGED <<dbVars, users_with_status, users_to_process, fill_users, fillRan,
                 stranded>>

\* main, line 320, and fill_missing_reels_selected_list, lines 550-557: the query
FillQuery ==
  /\ UNCHANGED <<dlVars, afterFull, call>>
  /\ pc = "loop"
  /\ idx > Len(users_to_process)
  /\ fill_users' = FillCandidates
  /\ fillRan' = TRUE
  /\ pc' = "fill"
  /\ UNCHANGED <<dbVars, users_with_status, users_to_process, idx, locals, acctObs,
                 stranded>>

\* fill_missing_reels_selected_list, lines 559-565: one user of the query result
FillStep ==
  /\ UNCHANGED <<dlVars, afterFull, call>>
  /\ pc = "fill"
  /\ fill_users # {}
  /\ LET u == CHOOSE v \in fill_users : \A w \in fill_users : insta_id[v] <= insta_id[w]
     IN /\ \E t \in get_top_reels(insta_id[u], top_n) :
             IF t # <<>>
             THEN update_account_fields(u, [reels_selected_list |-> t])
             ELSE UNCHANGED acctVars
        /\ fill_users' = fill_users \ {u}
  /\ UNCHANGED <<reels_table, following_table, obsVars, pc, users_with_status,
                 users_to_process, idx, locals>>

\* the memory of a process that has ended
MemStopped(p) ==
  /\ pc' = p
  /\ users_to_process' = <<>>
  /\ idx' = 0
  /\ fill_users' = {}
  /\ Locals0
  /\ AcctObs0

\* main returns
Finish ==
  /\ UNCHANGED <<dlVars, afterFull, call>>
  /\ pc = "fill"
  /\ fill_users = {}
  /\ MemStopped("done")
  /\ UNCHANGED <<dbVars, users_with_status, fillRan, stranded>>

InAccount == pc \in {"fetch_user", "upsert", "skip_check", "clips_first", "clips_page",
                      "save", "top", "mark_reels", "following", "following_cursor",
                      "sleep"}

\* the posts of the running fetch that are in memory only
Unsaved ==
  IF pc \in {"clips_page", "save"}
  THEN {p \in ReelsData(reels) : ~reels_table[p].present}
  ELSE {}

\* The process is terminated from outside: its memory is gone, the store stays.
\* stranded records the posts that were in memory only, for an account whose
\* reels were already marked complete.
Kill ==
  /\ UNCHANGED <<dlVars, afterFull, call>>
  /\ ~Stopped
  /\ stranded' = IF InAccount /\ all_reels_fetched_hiker[cur]
                 THEN [stranded EXCEPT ![cur] = Unsaved]
                 ELSE stranded
  /\ MemStopped("killed")
  /\ fillRan' = FALSE
  /\ UNCHANGED <<dbVars, users_with_status>>

Next ==
  \/ StartRun
  \/ Loop
  \/ FetchUserAttempt
  \/ FetchUserExhausted
  \/ Upsert
  \/ SkipPolicy
  \/ ClipsFirstAttempt
  \/ ClipsFirstExhausted
  \/ ClipsPageAttempt
  \/ ClipsPageExhausted
  \/ SaveReels
  \/ SaveReelsFails
  \/ SelectTop
  \/ MarkReels
  \/ FollowingAttempt
  \/ FollowingCursor
  \/ FollowingExhausted
  \/ Sleep
  \/ FillQuery
  \/ FillStep
  \/ Finish
  \/ Kill

Spec == Init /\ [][Next]_vars

\* One run of the scheduler that nothing stops from outside: main is started
\* once, and the process goes on for as long as it has a step to take, every
\* request returning a response or an error.
RunStep ==
  \/ Loop
  \/ FetchUserAttempt
  \/ FetchUserExhausted
  \/ Upsert
  \/ SkipPolicy
  \/ ClipsFirstAttempt
  \/ ClipsFirstExhausted
  \/ ClipsPageAttempt
  \/ ClipsPageExhausted
  \/ SaveReels
  \/ SaveReelsFails
  \/ SelectTop
  \/ MarkReels
  \/ FollowingAttempt
  \/ FollowingCursor
  \/ FollowingExhausted
  \/ Sleep
  \/ FillQuery
  \/ FillStep
  \/ Finish

StartOnce == pc = "idle" /\ StartRun

NextRun == StartOnce \/ RunStep

\* the posts an earlier run stored for the first account: its first page
ResumedPosts == {PostPk(1, k) : k \in 1..PageSize}

\* The store before the run: empty, or as a run left it that was killed in the
\* following phase of the first account (its reels saved, selected and marked
\* complete, its following still to be fetched).
InitRun ==
  /\ \E resumed \in BOOLEAN :
       IF resumed
       THEN /\ all_reels_fetched_hiker = [u \in Accounts |-> u = "a1"]
            /\ insta_id = [u \in Accounts |-> IF u = "a1" THEN Pk("a1") ELSE 0]
            /\ reels_table =
                 [p \in AllPks |->
                    IF p \in ResumedPosts \ NoMedia
                    THEN [present |-> TRUE, user_pk |-> Pk("a1"),
                          play_count |-> Media(p).play_count,
                          video_url |-> Media(p).video_url,
                          thumbnail_url |-> Media(p).thumbnail_url,
                          downloaded |-> FALSE, video_unavailable |-> FALSE]
                    ELSE NoRow]
            /\ \E t \in get_top_reels(Pk("a1"), top_n) :
                 reels_selected_list = [u \in Accounts |-> IF u = "a1" THEN t ELSE <<>>]
       ELSE /\ all_reels_fetched_hiker = [u \in Accounts |-> FALSE]
            /\ insta_id = [u \in Accounts |-> 0]
            /\ reels_table = [p \in AllPks |-> NoRow]
            /\ reels_selected_list = [u \in Accounts |-> <<>>]
  /\ all_following_fetched_hiker = [u \in Accounts |-> FALSE]
  /\ following_table = {}
  /\ CrawlIdle
  /\ DLIdle

SpecRun == InitRun /\ [][NextRun]_vars /\ WF_vars(RunStep)

(***************************************************************************)
(* Properties of the crawl.                                                *)
(***************************************************************************)
FlagsAsAtRunStart(u) ==
  /\ all_reels_fetched_hiker[u] = users_with_status[u].reels_done
  /\ all_following_fetched_hiker[u] = users_with_status[u].following_done

\* C1 (as the spec states it): when the first-page posts request has failed on
\* all max_retries attempts, the whole run has aborted.
C1_FirstPageExhaustionAborts ==
  outcome = "first_page_exhausted" => pc = "aborted"

\* C1 (amended): when the first-page posts request has failed on all max_retries
\* attempts, the account is skipped: the store is left as it was (both flags as
\* at the start of the run), no following request is issued for the account, and
\* the run goes on to the next pending account.
C1_FirstPageExhaustionSkipsUser ==
  /\ [](outcome = "first_page_exhausted" =>
          /\ pc = "sleep"
          /\ FlagsAsAtRunStart(cur)
          /\ "following" \notin reqs)
  /\ [][(pc = "clips_first" /\ attempts >= max_retries /\ pc' # "killed") =>
          (pc' = "sleep" /\ UNCHANGED <<dbVars, runVars>>)]_vars
  /\ [][(pc = "sleep" /\ pc' # "killed") =>
          (pc' = "loop" /\ idx' = idx + 1 /\ UNCHANGED <<dbVars, users_to_process>>)]_vars

C1_Witness ==
  /\ pc = "sleep"
  /\ outcome = "first_page_exhausted"
  /\ attempts = max_retries
  /\ idx < Len(users_to_process)

\* C2: when the profile lookup has failed on all max_retries attempts the run
\* has ended at that account: only profile requests were issued for it, its
\* flags are as at the start of the run, the end-of-run fill has not run, and
\* nothing happens afterwards but the start of a new run.
C2_ProfileExhaustionAborts ==
  /\ [](pc = "aborted" =>
          /\ outcome = "profile_exhausted"
          /\ reqs = {"profile"}
          /\ FlagsAsAtRunStart(cur)
          /\ ~fillRan)
  /\ [][(pc = "fetch_user" /\ attempts >= max_retries /\ pc' # "killed") =>
          (pc' = "aborted" /\ UNCHANGED <<dbVars, runVars>>)]_vars
  /\ [][pc = "aborted" =>
          (pc' = "loop" /\ idx' = 1 /\ reqs' = {} /\ UNCHANGED dbVars
           /\ users_with_status' = get_hiker_processing_status_for_all_users)]_vars

C2_Witness ==
  /\ pc = "aborted"
  /\ attempts = max_retries
  /\ idx < Len(users_to_process)

\* C3: whenever the process is killed during an account's post fetch, either the
\* account's reels flag is still false or every post the fetch has accumulated
\* is in the store; and the flag is never true while fetched posts are in memory
\* only.
C3_KillLeavesStoreResumable ==
  /\ \A u \in Accounts : stranded[u] = {}
  /\ (InAccount /\ all_reels_fetched_hiker[cur]) => Unsaved = {}

\* C4: both completion flags are monotonic: no step of the crawl sets one back
\* to false.
C4_FlagsMonotonic ==
  [][\A u \in Accounts :
       /\ all_reels_fetched_hiker[u] => all_reels_fetched_hiker'[u]
       /\ all_following_fetched_hiker[u] => all_following_fetched_hiker'[u]]_vars

\* the profile of an account whose reels are complete has just been upserted
C4_Witness ==
  /\ pc = "skip_check"
  /\ all_reels_fetched_hiker[cur]
  /\ insta_id[cur] = Pk(cur)

\* C7: for an account whose reels flag was true when the run started, the run
\* issues no post-list request.
C7_NoRefetchOfCompleteReels ==
  (InAccount /\ users_with_status[cur].reels_done) => "clips" \notin reqs

C7_Witness ==
  /\ InAccount
  /\ users_with_status[cur].reels_done
  /\ reqs = {"profile", "following"}

\* C8: when the first page of posts is empty or malformed, both flags become
\* true, no post is persisted, and no following request is issued for the
\* account in that run.
C8_ZeroReelsCompletesBoth ==
  /\ [][(pc = "clips_first" /\ outcome' = "zero_reels") =>
          /\ all_reels_fetched_hiker'[cur]
          /\ all_following_fetched_hiker'[cur]
          /\ UNCHANGED <<reels_table, following_table>>
          /\ pc' = "sleep"]_vars
  /\ [](outcome = "zero_reels" =>
          /\ pc = "sleep"
          /\ "following" \notin reqs
          /\ all_reels_fetched_hiker[cur]
          /\ all_following_fetched_hiker[cur])

C8_Witness ==
  /\ outcome = "zero_reels"
  /\ pc = "sleep"
  /\ ~users_with_status[cur].following_done
  /\ RowsOf(Pk(cur)) = {}

\* C9: after the upsert the account is skipped exactly when following_count >
\* max_following or follower_count < min_followers; a skipped account gets both
\* flags and no post-list or follow-list request.
C9_SkipPolicyExact ==
  /\ [][(pc = "skip_check" /\ pc' # "killed") =>
          IF user.following_count > max_following \/ user.follower_count < min_followers
          THEN /\ pc' = "sleep"
               /\ outcome' = "skipped"
               /\ all_reels_fetched_hiker'[cur]
               /\ all_following_fetched_hiker'[cur]
          ELSE /\ pc' \in {"clips_first", "following"}
               /\ outcome' # "skipped"
               /\ UNCHANGED dbVars]_vars
  /\ [](outcome = "skipped" => (pc = "sleep" /\ reqs = {"profile"}))

C9_Witness ==
  /\ outcome = "skipped"
  /\ user.following_count = max_following + 1
  /\ user.follower_count = min_followers
  /\ reqs = {"profile"}

\* C10: for an account with no stored posts whose pages carry distinct posts
\* and end with a page without cursor, the fetch stores exactly
\* min(ReelsToFetch, posts served) posts, sets the reels flag, and persists the
\* (at most top_n) posts with the highest play counts as the selected list; no
\* fetch stores more than ReelsToFetch posts.  (The posts are stored: the case
\* of a write that raises is that of C12.)
C10_FetchStoresTargetAndTop ==
  /\ [][(pc = "save" /\ pc' \in {"top", "mark_reels"}) =>
          /\ Cardinality({p \in AllPks : reels_table'[p] # reels_table[p]}) <= ReelsToFetch
          /\ (fetchEnd = "no_cursor" /\ RowsOf(Pk(cur)) = {}
              /\ Range(reels) \cap NoMedia = {}) =>
                Cardinality({p \in AllPks : reels_table'[p].present
                                            /\ reels_table'[p].user_pk = Pk(cur)})
                  = Min(ReelsToFetch, Len(reels))]_vars
  /\ []((pc = "mark_reels" /\ fetchEnd = "no_cursor" /\ RowsOf(Pk(cur)) # {}) =>
          LET sel == reels_selected_list[cur]
              rows == RowsOf(Pk(cur))
          IN /\ Len(sel) = Min(top_n, Cardinality(rows))
             /\ Range(sel) \subseteq rows
             /\ Cardinality(Range(sel)) = Len(sel)
             /\ \A p \in Range(sel) : \A q \in rows \ Range(sel) :
                  reels_table[p].play_count >= reels_table[q].play_count
             /\ \A a, b \in 1..Len(sel) :
                  a < b => reels_table[sel[a]].play_count >= reels_table[sel[b]].play_count)
  /\ []((fetchEnd = "no_cursor" /\ pc \in {"following", "following_cursor", "sleep"}
         /\ outcome # "persist_error") =>
          all_reels_fetched_hiker[cur])

C10_Witness ==
  /\ pc = "mark_reels"
  /\ fetchEnd = "no_cursor"
  /\ accumulated > ReelsToFetch
  /\ Cardinality(RowsOf(Pk(cur))) = ReelsToFetch
  /\ Len(reels_selected_list[cur]) = top_n

BothDoneAtRunStart(u) ==
  users_with_status[u].reels_done /\ users_with_status[u].following_done

\* C11 (as the spec states it): a run started after a run that returned leaves
\* every account's completion flags as it found them.
C11_SecondRunChangesNoFlag ==
  afterFull => \A u \in Accounts : FlagsAsAtRunStart(u)

\* C11 (amended): a run started after a run that returned processes only the
\* accounts the first run left pending; the accounts the first run completed
\* keep their flags and get no request; no step changes a stored post row or
\* removes a follow edge (what is stored again is absorbed), and a second run
\* that finds every account complete leaves the tables and the flags untouched.
C11_SecondRunOnlyPending ==
  /\ []((afterFull /\ InAccount) => ~BothDoneAtRunStart(cur))
  /\ [](afterFull => \A u \in Accounts :
          BothDoneAtRunStart(u) =>
            (all_reels_fetched_hiker[u] /\ all_following_fetched_hiker[u]))
  /\ [][/\ \A p \in AllPks : reels_table[p].present => reels_table'[p] = reels_table[p]
        /\ following_table \subseteq following_table']_vars
  /\ [][(afterFull /\ afterFull' /\ \A u \in Accounts : BothDoneAtRunStart(u)) =>
          UNCHANGED <<reels_table, following_table, all_reels_fetched_hiker,
                      all_following_fetched_hiker>>]_vars

\* a second run has returned over a store in which every account was complete
C11_Witness ==
  /\ afterFull
  /\ pc = "done"
  /\ \A u \in Accounts : BothDoneAtRunStart(u)
  /\ RowsOf(1) # {}
  /\ following_table # {}

\* C12: every way a post fetch can end without the process exit leaves the
\* account's reels flag true: end of pages, target reached, malformed page,
\* later-page retry exhaustion, an unexpected error while paging, a failure
\* while persisting.  (First-page retry exhaustion, which the claim counts as
\* the fatal exit, is the case of C1.)
C12_FetchEndSetsReelsFlag ==
  (pc = "sleep" /\ "clips" \in reqs /\ outcome # "first_page_exhausted") =>
    all_reels_fetched_hiker[cur]

\* C13 (as the spec states it): a follow-list page that arrives with no user
\* ends the following fetch, cursor or not: the flag is set and the function
\* returns.
C13_EmptyPageEndsFollowing ==
  [][(pc = "following_cursor" /\ following = {} /\ pc' # "killed") =>
       (all_following_fetched_hiker'[cur] /\ pc' = "sleep")]_vars

\* C13 (amended): a follow-list page that arrives with no user ends the
\* following fetch only when it carries no cursor; with a cursor the flag is
\* left as it is and the next page is requested, as after a page with users.
C13_EmptyPageFollowsCursor ==
  /\ [][(pc = "following_cursor" /\ following = {} /\ pc' # "killed") =>
          IF following_next_page_id
          THEN /\ pc' = "following"
               /\ UNCHANGED <<dbVars, following_served>>
          ELSE /\ pc' = "sleep"
               /\ all_following_fetched_hiker'[cur]
               /\ UNCHANGED <<reels_table, following_table>>]_vars
  /\ [][(pc = "following" /\ pc' = "following_cursor"
         /\ following_served' = following_served) =>
          (following' = {} /\ UNCHANGED dbVars)]_vars

C13_Witness ==
  /\ pc = "following_cursor"
  /\ following = {}
  /\ following_next_page_id
  /\ ~all_following_fetched_hiker[cur]

\* C23: a profile lookup that answers "not found" is a terminal state that is
\* not fatal: both completion flags of the account are set, the profile is not
\* upserted, no post or following request is made for the account, and the run
\* goes on to the next account.
C23_NotFoundIsTerminal ==
  /\ [](outcome = "not_found" =>
          /\ pc = "sleep"
          /\ all_reels_fetched_hiker[cur]
          /\ all_following_fetched_hiker[cur]
          /\ reqs = {"profile"})
  /\ [][(outcome # "not_found" /\ outcome' = "not_found") =>
          UNCHANGED <<insta_id, reels_selected_list, reels_table, following_table>>]_vars
  /\ [][(pc = "sleep" /\ outcome = "not_found" /\ pc' # "killed") =>
          (pc' = "loop" /\ idx' = idx + 1 /\ UNCHANGED <<dbVars, users_to_process>>)]_vars

C23_Witness ==
  /\ pc = "sleep"
  /\ outcome = "not_found"
  /\ idx < Len(users_to_process)
  /\ insta_id[cur] = 0
  /\ all_reels_fetched_hiker[cur]
  /\ all_following_fetched_hiker[cur]

PendingAtRunStart(u) == ~BothDoneAtRunStart(u)

\* C24: in a run that is not aborted process_user_with_hiker is entered exactly
\* once for each account that had a false completion flag when the run
\* started, in table order, never for an account with both flags true, and one
\* account is finished before the next is entered.
C24_EachPendingAccountOnce ==
  /\ [](~Stopped =>
          /\ [k \in 1..Len(users_to_process) |-> users_to_process[k].username] =
               SelectSeq(AccountOrder, PendingAtRunStart)
          /\ idx \in 1..(Len(users_to_process) + 1)
          /\ (InAccount => idx <= Len(users_to_process))
          /\ (pc = "fill" => idx = Len(users_to_process) + 1))
  /\ [][(~Stopped /\ ~Stopped') =>
          /\ UNCHANGED users_to_process
          /\ (idx' # idx => (idx' = idx + 1 /\ pc = "sleep" /\ pc' = "loop"))
          /\ ((pc # "loop" /\ pc' = "loop") => (pc = "sleep" /\ idx' = idx + 1))
          /\ ((pc # "fetch_user" /\ pc' = "fetch_user") => (pc = "loop" /\ idx' = idx))]_vars

\* the loop of a run that found one account pending and one complete is over
C24_Witness ==
  /\ pc = "fill"
  /\ Len(users_to_process) = 1
  /\ idx = 2
  /\ \E u \in Accounts : BothDoneAtRunStart(u)

\* sel is the top top_n of the stored posts of user_pk by play count
HoldsTopN(sel, user_pk) ==
  /\ Len(sel) = Min(top_n, Cardinality(RowsOf(user_pk)))
  /\ \A k \in 1..Len(sel), l \in 1..Len(sel) : sel[k] = sel[l] => k = l
  /\ Range(sel) \subseteq RowsOf(user_pk)
  /\ \A p \in RowsOf(user_pk) \ Range(sel), q \in Range(sel) :
       reels_table[p].play_count <= reels_table[q].play_count

\* C26: whenever process_user_with_hiker finishes an account (not skipped, not
\* aborted) that owns a stored post, the selected list of the account holds the
\* top top_n of its stored posts by play count, also when only the following
\* phase was pending.
C26_FinishedAccountHasTopN ==
  (pc = "sleep" /\ outcome = "returned" /\ RowsOf(Pk(cur)) # {}) =>
     HoldsTopN(reels_selected_list[cur], Pk(cur))

\* C27: retry exhaustion on a later clips page is not fatal: the paging loop
\* ends, the reels flag is set, the posts accumulated from the earlier pages
\* are saved (the write that raises is the case of C12), the following phase
\* runs if it is pending, and the run goes on to the next account.
C27_LaterPageExhaustionNotFatal ==
  /\ [][(pc = "clips_page" /\ attempts >= max_retries /\ pc' # "killed") =>
          /\ pc' = "save"
          /\ all_reels_fetched_hiker'[cur]
          /\ UNCHANGED <<reels, reels_table, following_table, runVars>>]_vars
  /\ [][(/\ pc = "save"
         /\ fetchEnd = "exhausted"
         /\ pc' # "killed"
         /\ outcome' # "persist_error") =>
          /\ pc' = "top"
          /\ reels' = Prefix(reels, ReelsToFetch)
          /\ \A p \in AllPks :
               reels_table'[p].present <=>
                 (reels_table[p].present \/ p \in ReelsData(reels))]_vars
  /\ []((pc = "sleep" /\ fetchEnd = "exhausted" /\ outcome # "persist_error") =>
          /\ all_reels_fetched_hiker[cur]
          /\ \A p \in ReelsData(reels) : reels_table[p].present
          /\ (fetch_following => "following" \in reqs)
          /\ outcome \in {"returned", "error"})
  /\ [][(pc = "sleep" /\ fetchEnd = "exhausted" /\ pc' # "killed") =>
          (pc' = "loop" /\ idx' = idx + 1 /\ UNCHANGED <<dbVars, users_to_process>>)]_vars

C27_Witness ==
  /\ pc = "sleep"
  /\ fetchEnd = "exhausted"
  /\ outcome = "returned"
  /\ "following" \in reqs
  /\ reels # <<>>
  /\ \A p \in ReelsData(reels) : reels_table[p].present
  /\ all_reels_fetched_hiker[cur]
  /\ idx < Len(users_to_process)

\* the positions at which a request is attempted and retried
RequestPcs == {"fetch_user", "clips_first", "clips_page", "following"}

\* C28: every request (profile, each post page, each following page) is attempted
\* at most max_retries times. The counter of the request never exceeds max_retries;
\* it grows only by one, on a failed attempt that stays at the same request and
\* brings nothing back; an attempt that stays at a request without counting a
\* failure is the success that goes on to the next post page with a fresh counter;
\* and once max_retries attempts have failed, the next step leaves the request
\* without any further answer.
C28_AtMostMaxRetriesAttempts ==
  /\ [](attempts \in 0..max_retries)
  /\ [][attempts' > attempts =>
          /\ attempts' = attempts + 1
          /\ pc \in RequestPcs /\ pc' = pc
          /\ UNCHANGED <<dbVars, user, reels, next_page_id, following_served>>]_vars
  /\ [][(pc \in RequestPcs /\ pc' = pc /\ attempts' # attempts + 1) =>
          (pc = "clips_page" /\ attempts' = 0 /\ Len(reels') >= Len(reels) /\ next_page_id')]_vars
  /\ [][(pc \in RequestPcs /\ attempts = max_retries /\ pc' # "killed") =>
          /\ pc' \notin RequestPcs
          /\ UNCHANGED <<attempts, user, reels, next_page_id, following_served, reels_table,
                         following_table>>]_vars

\* the profile request succeeded on its last permitted attempt
C28_Witness ==
  /\ pc = "upsert"
  /\ attempts = max_retries - 1
  /\ reqs = {"profile"}

\* the positions at which a page of the post list is requested
ClipsPcs == {"clips_first", "clips_page"}

\* C29: the post fetch requests a further page only while fewer than the target
\* are accumulated and the last answer carried a cursor. The first page is
\* requested with nothing accumulated; a later page is requested only below the
\* target and with a cursor; posts are accumulated only by a page request; an
\* answer that reaches the target or carries no cursor ends the requests; and once
\* the fetch has ended no page is requested for that account any more.
C29_FurtherPageOnlyBelowTargetWithCursor ==
  /\ [](pc = "clips_first" => reels = <<>> /\ fetchEnd = "")
  /\ [](pc = "clips_page" => Len(reels) < ReelsToFetch /\ next_page_id /\ fetchEnd = "")
  /\ [][reels' # reels /\ reels' # <<>> =>
          (pc \in ClipsPcs /\ "clips" \in reqs') \/ (pc = "save" /\ reels' = Prefix(reels, ReelsToFetch))]_vars
  /\ [][(pc \in ClipsPcs /\ reels' # reels /\ pc' # "killed"
            /\ (Len(reels') >= ReelsToFetch \/ ~next_page_id')) =>
          (pc' = "save" /\ fetchEnd' \in {"target", "no_cursor"})]_vars
  /\ [][(fetchEnd # "" /\ fetchEnd' # fetchEnd) =>
          ((pc = "sleep" /\ pc' = "loop") \/ pc' = "killed")]_vars

\* the target was reached with a cursor still on offer, and the fetch stopped
C29_Witness ==
  /\ pc = "save"
  /\ fetchEnd = "target"
  /\ next_page_id
  /\ Len(reels) >= ReelsToFetch
  /\ Len(reels) < PostsOf(Pk(cur))

\* the edges of the pages of the running following fetch that have been answered
ServedEdges == {<<Pk(cur), FollowPk(Pk(cur), k)>> : k \in 1..following_served}

\* C30: in the following fetch the edges of each answered page are inserted before
\* the next page is requested and before following_complete is set. At every
\* point of an account's processing all edges answered so far are in the store;
\* no edge is ever removed; the step that sets following_complete in the following
\* phase finds them there and fetches nothing itself; and a kill leaves the store
\* as it is, so that it loses no more than the page in flight.
C30_EdgesSavedBeforeNextPageAndFlag ==
  /\ [](InAccount => ServedEdges \subseteq following_table)
  /\ [][following_table \subseteq following_table']_vars
  /\ [][(pc \in {"following", "following_cursor"}
            /\ all_following_fetched_hiker' # all_following_fetched_hiker) =>
          /\ ServedEdges \subseteq following_table
          /\ UNCHANGED <<following_table, following_served>>
          /\ pc' = "sleep"]_vars
  /\ [][(pc = "following_cursor" /\ pc' = "following") =>
          (following_next_page_id /\ ServedEdges \subseteq following_table
             /\ UNCHANGED <<following_table, following_served>>)]_vars
  /\ [][pc' = "killed" => UNCHANGED dbVars]_vars

\* the following fetch of an account ended on its last page with every edge stored
C30_Witness ==
  /\ pc = "sleep"
  /\ outcome = "returned"
  /\ "following" \in reqs
  /\ all_following_fetched_hiker[cur]
  /\ following_served = FollowsOf(Pk(cur))
  /\ following_served >= 1
  /\ ServedEdges \subseteq following_table

\* the outcomes of an account that ended in the handler of line 254
Failed == {"error", "persist_error"}

\* C31: an unexpected error inside one account's processing, after the profile
\* was fetched, does not stop the run. The step that fails ends the account's
\* processing and sets no completion flag; the scheduler then pauses and goes on
\* with the next entry of its list, leaving the store as the failure found it.
C31_FailureInsideAccountNotFatal ==
  /\ [][(outcome \notin Failed /\ outcome' \in Failed) =>
          /\ pc \in {"save", "following"}
          /\ pc' = "sleep"
          /\ UNCHANGED <<dbVars, idx, users_to_process>>]_vars
  /\ [](outcome \in Failed => pc = "sleep" /\ insta_id[cur] # 0)
  \* an unexpected error of a post page request is caught at line 190: it sets no
  \* flag either, and the account's processing goes on with what was accumulated
  /\ [][(fetchEnd # "exception" /\ fetchEnd' = "exception") =>
          (pc \in ClipsPcs /\ pc' = "save" /\ UNCHANGED <<dbVars, idx, users_to_process>>)]_vars
  /\ [][(pc = "sleep" /\ outcome \in Failed /\ pc' # "killed") =>
          (pc' = "loop" /\ idx' = idx + 1 /\ UNCHANGED <<dbVars, users_to_process>>)]_vars

\* the write of an account's reels failed, with another account still to come
C31_Witness ==
  /\ pc = "sleep"
  /\ outcome = "persist_error"
  /\ ~all_reels_fetched_hiker[cur]
  /\ ~all_following_fetched_hiker[cur]
  /\ idx < Len(users_to_process)

\* the first page of the following list is the one requested without a cursor
\* (line 219: following_next_page_id = None)
FirstFollowingPage == pc = "following" /\ ~following_next_page_id

\* C32, as stated: retry exhaustion on the first page of the following list
\* aborts the run and leaves following_complete false.
C32_FirstFollowPageExhaustionFatal ==
  [][(FirstFollowingPage /\ attempts = max_retries /\ pc' # "killed") =>
       (pc' = "aborted" /\ ~all_following_fetched_hiker'[cur])]_vars

\* C32, amended: retry exhaustion on a page of the following list, the first
\* included, is not fatal and ends the following fetch for good: the account's
\* following_complete is set, no edge is added or removed, the scheduler pauses
\* and goes on with the next entry of its list, and a run started later does not
\* schedule the account for its following.
C32_FollowExhaustionMarksComplete ==
  /\ [][(pc = "following" /\ attempts = max_retries /\ pc' # "killed") =>
          /\ pc' = "sleep"
          /\ outcome' = "returned"
          /\ all_following_fetched_hiker'[cur]
          /\ UNCHANGED <<all_reels_fetched_hiker, reels_table, following_table, idx,
                         users_to_process, following_served>>]_vars
  /\ [][(pc = "sleep" /\ attempts = max_retries /\ "following" \in reqs /\ pc' # "killed") =>
          (pc' = "loop" /\ idx' = idx + 1 /\ UNCHANGED <<dbVars, users_to_process>>)]_vars
  /\ [][(Stopped /\ pc' = "loop") =>
          \A k \in 1..Len(users_to_process') :
            users_to_process'[k].following_done =
              all_following_fetched_hiker[users_to_process'[k].username]]_vars
  /\ [](InAccount /\ "following" \in reqs => ~users_to_process[idx].following_done)

\* the first page of an account's following list failed max_retries times
C32_Witness ==
  /\ pc = "sleep"
  /\ outcome = "returned"
  /\ "following" \in reqs
  /\ attempts = max_retries
  /\ ~following_next_page_id
  /\ following_served = 0
  /\ all_following_fetched_hiker[cur]
  /\ idx < Len(users_to_process)

\* C35: once an account's selected list is non-empty no step of the crawl clears
\* it, and the profile upsert leaves the selected list and both completion flags
\* of the account as they were.
C35_SelectedListNeverCleared ==
  /\ [][\A u \in Accounts :
          reels_selected_list[u] # <<>> => reels_selected_list'[u] # <<>>]_vars
  /\ [][(pc = "upsert" /\ pc' = "skip_check") =>
          UNCHANGED <<reels_selected_list, all_reels_fetched_hiker,
                      all_following_fetched_hiker>>]_vars

\* C38: a run of the scheduler that is started terminates, by its normal end or
\* by the fatal abort, whatever the API answers.
C38_RunTerminates == (pc = "loop") ~> (pc \in {"done", "aborted"})

(***************************************************************************)
(* The download manager (download_reels.py) over the same store.           *)
(***************************************************************************)
crawlVars == <<acctVars, following_table, memVars, obsVars, afterFull, call>>

\* SELECT pk FROM reels WHERE pk IN (...) AND (downloaded = 1 OR video_unavailable = 1)
filter_reels_by_status(reel_pks) ==
  {p \in reel_pks : reels_table[p].present
                    /\ (reels_table[p].downloaded \/ reels_table[p].video_unavailable)}

\* UPDATE reels SET downloaded = 1 WHERE pk = ?  (on the table tbl)
mark_reel_as_downloaded(tbl, pk) ==
  IF tbl[pk].present THEN [tbl EXCEPT ![pk].downloaded = TRUE] ELSE tbl

\* UPDATE reels SET video_unavailable = 1 WHERE pk = ?
mark_reel_as_unavailable(tbl, pk) ==
  IF tbl[pk].present THEN [tbl EXCEPT ![pk].video_unavailable = TRUE] ELSE tbl

\* for failed_pk in failed_video_pks: mark_reel_as_unavailable(failed_pk)
RECURSIVE MarkFailed(_, _)
MarkFailed(tbl, pks) ==
  IF pks = <<>> THEN tbl
  ELSE MarkFailed(mark_reel_as_unavailable(tbl, Head(pks)), Tail(pks))

\* A lookup that answers for every stored reel, with or without a video_url.
get_reel_video_url_of_any_row(pk) == reels_table[pk].present

\* SELECT video_url FROM reels WHERE pk = ?  (None when NULL or empty)
get_reel_video_url(pk) == reels_table[pk].present /\ reels_table[pk].video_url
get_reel_thumbnail_url(pk) == reels_table[pk].present /\ reels_table[pk].thumbnail_url

\* SELECT username, reels_selected_list ... WHERE reels_selected_list IS NOT NULL
\* AND reels_selected_list != '', in rowid order
get_all_selected_reels ==
  LET Selected(u) == reels_selected_list[u] # <<>>
  IN SelectSeq(AccountOrder, Selected)

Terminal(p) == reels_table[p].downloaded \/ reels_table[p].video_unavailable

\* The store as a finished crawl leaves it: StoredPosts posts of the first
\* profile and one of the second, every account complete, the selected lists as
\* get_top_reels computes them.  The second handle either is an account of its
\* own or resolves to the first profile (alias): process_user_with_hiker upserts
\* under the handle the API returns (hiker.py:117-126) but writes the selected
\* list under the handle it was asked for (207-210), so the row of the second
\* handle keeps a NULL insta_id and gets the first profile's selected list.
InitDL ==
  /\ reels_table =
       [p \in AllPks |->
          IF p \in {PostPk(1, k) : k \in 1..StoredPosts} \/ p = PostPk(2, 1)
          THEN [present |-> TRUE, user_pk |-> p \div 100, play_count |-> PlayCount(p),
                video_url |-> p \notin NoVideoUrl, thumbnail_url |-> p \in ThumbnailUrl,
                downloaded |-> FALSE, video_unavailable |-> FALSE]
          ELSE NoRow]
  /\ \E alias \in BOOLEAN :
       /\ insta_id = [u \in Accounts |-> IF u = "a1" THEN 1 ELSE IF alias THEN 0 ELSE 2]
       /\ \E s1 \in get_top_reels(1, top_n),
             s2 \in get_top_reels(IF alias THEN 1 ELSE 2, top_n) :
            reels_selected_list = [u \in Accounts |-> IF u = "a1" THEN s1 ELSE s2]
  /\ all_reels_fetched_hiker = [u \in Accounts |-> TRUE]
  /\ all_following_fetched_hiker = [u \in Accounts |-> TRUE]
  /\ following_table = {}
  /\ CrawlIdle
  /\ DLIdle

DLStopped == dl_pc \in {"idle", "done", "killed"}

\* the locals of process_user before it is entered
ProcessUser0 ==
  /\ reel_ids_to_download' = <<>>
  /\ i' = 0
  /\ reels_in_batch' = <<>>
  /\ j' = 0
  /\ tasks' = <<>>
  /\ results' = <<>>
  /\ finished' = {}
  /\ ridx' = 0
  /\ failed_video_pks' = <<>>
  /\ consecutive_video_failures' = 0
  /\ any_downloaded' = FALSE

\* main, lines 106-132: read the selected lists and compute the skip set once
DownloadMain ==
  /\ DLStopped
  /\ LET users == get_all_selected_reels
         all_pks_to_check == UNION {Range(reels_selected_list[u]) : u \in Range(users)}
     IN /\ user_reel_map' = [k \in 1..Len(users) |->
                               [username |-> users[k], pks |-> reels_selected_list[users[k]]]]
        /\ reels_to_skip' = filter_reels_by_status(all_pks_to_check)
        /\ dl_pc' = IF users = <<>> THEN "done" ELSE "user"
  /\ uidx' = 1
  /\ ProcessUser0
  /\ UNCHANGED <<crawlVars, reels_table, fileVars, dlObs>>

\* main, lines 135-143: the next user's list without the skip set; process_user
\* is entered unless nothing is left
NextUser ==
  /\ dl_pc = "user"
  /\ uidx <= Len(user_reel_map)
  /\ LET NotSkipped(pk) == pk \notin reels_to_skip
         reels_to_download == SelectSeq(user_reel_map[uidx].pks, NotSkipped)
     IN IF reels_to_download = <<>>
        THEN /\ uidx' = uidx + 1
             /\ UNCHANGED <<dl_pc, reel_ids_to_download>>
        ELSE /\ reel_ids_to_download' = reels_to_download
             /\ dl_pc' = "while"
             /\ UNCHANGED uidx
  /\ i' = 0
  /\ failed_video_pks' = <<>>
  /\ consecutive_video_failures' = 0
  /\ any_downloaded' = FALSE
  /\ UNCHANGED <<crawlVars, reels_table, fileVars, dlObs, user_reel_map,
                 reels_to_skip, reels_in_batch, j, tasks, results, finished, ridx>>

\* main returns after the last user
DownloadMainReturns ==
  /\ dl_pc = "user"
  /\ uidx > Len(user_reel_map)
  /\ dl_pc' = "done"
  /\ user_reel_map' = <<>>
  /\ reels_to_skip' = {}
  /\ uidx' = 0
  /\ ProcessUser0
  /\ UNCHANGED <<crawlVars, reels_table, fileVars, dlObs>>

\* process_user, lines 45-48: the next batch
BatchStart ==
  /\ dl_pc = "while"
  /\ i < Len(reel_ids_to_download)
  /\ reels_in_batch' = SubSeq(reel_ids_to_download, i + 1,
                              Min(i + max_concurrent, Len(reel_ids_to_download)))
  /\ i' = i + max_concurrent
  /\ tasks' = <<>>
  /\ j' = 1
  /\ dl_pc' = "batch"
  /\ UNCHANGED <<crawlVars, reels_table, fileVars, dlObs, user_reel_map,
                 reels_to_skip, uidx, reel_ids_to_download, results, finished, ridx,
                 failed_video_pks, consecutive_video_failures, any_downloaded>>

\* ExamineReel, but a video transfer is queued although the file exists
ExamineReelQueuesExisting ==
  /\ dl_pc = "batch"
  /\ j <= Len(reels_in_batch)
  /\ LET pk == reels_in_batch[j]
         exists == video_file[pk] # "none"
         video == IF get_reel_video_url(pk)
                  THEN <<[pk |-> pk, type |-> "video"]>> ELSE <<>>
         thumb == IF ~thumb_file[pk] /\ get_reel_thumbnail_url(pk)
                  THEN <<[pk |-> pk, type |-> "thumbnail"]>> ELSE <<>>
     IN /\ reels_table' = IF exists THEN mark_reel_as_downloaded(reels_table, pk)
                          ELSE reels_table
        /\ tasks' = tasks \o video \o thumb
        /\ reattempted' = IF exists /\ Terminal(pk) THEN reattempted \cup {pk}
                          ELSE reattempted
  /\ j' = j + 1
  /\ UNCHANGED <<crawlVars, fileVars, failed_transfers, dl_pc, user_reel_map,
                 reels_to_skip, uidx,
                 reel_ids_to_download, i, reels_in_batch, results, finished, ridx,
                 failed_video_pks, consecutive_video_failures, any_downloaded>>

\* process_user, lines 50-69: one reel of the batch.  A video file that exists
\* marks the reel downloaded; otherwise a video task is queued if there is a
\* video_url; a thumbnail task is queued if the thumbnail file is missing and
\* there is a thumbnail_url.
ExamineReel ==
  /\ dl_pc = "batch"
  /\ j <= Len(reels_in_batch)
  /\ LET pk == reels_in_batch[j]
         exists == video_file[pk] # "none"
         video == IF ~exists /\ get_reel_video_url(pk)
                  THEN <<[pk |-> pk, type |-> "video"]>> ELSE <<>>
         thumb == IF ~thumb_file[pk] /\ get_reel_thumbnail_url(pk)
                  THEN <<[pk |-> pk, type |-> "thumbnail"]>> ELSE <<>>
     IN /\ reels_table' = IF exists THEN mark_reel_as_downloaded(reels_table, pk)
                          ELSE reels_table
        /\ tasks' = tasks \o video \o thumb
        /\ reattempted' = IF exists /\ Terminal(pk) THEN reattempted \cup {pk}
                          ELSE reattempted
  /\ j' = j + 1
  /\ UNCHANGED <<crawlVars, fileVars, failed_transfers, dl_pc, user_reel_map,
                 reels_to_skip, uidx,
                 reel_ids_to_download, i, reels_in_batch, results, finished, ridx,
                 failed_video_pks, consecutive_video_failures, any_downloaded>>

\* process_user, lines 71-74: no task, or all transfers of the batch are started
Gather ==
  /\ dl_pc = "batch"
  /\ j > Len(reels_in_batch)
  /\ IF tasks = <<>>
     THEN /\ dl_pc' = "while"
          /\ UNCHANGED <<results, reattempted>>
     ELSE /\ dl_pc' = "gather"
          /\ results' = [k \in 1..Len(tasks) |->
                           [pk |-> tasks[k].pk, type |-> tasks[k].type, success |-> FALSE]]
          /\ reattempted' = reattempted \cup
                              {tasks[k].pk : k \in {n \in 1..Len(tasks) :
                                                       /\ tasks[n].type = "video"
                                                       /\ Terminal(tasks[n].pk)}}
  /\ finished' = {}
  /\ ridx' = 1
  /\ UNCHANGED <<crawlVars, reels_table, fileVars, failed_transfers, user_reel_map,
                 reels_to_skip, uidx,
                 reel_ids_to_download, i, reels_in_batch, j, tasks, failed_video_pks,
                 consecutive_video_failures, any_downloaded>>

\* what a transfer leaves at dest_path: the whole file, nothing (no 200, or an
\* error before the file is opened), or a part (an error while streaming)
TransferEnds == {"complete", "none", "partial"}

\* the post whose failed transfers are counted: the most played one, first in
\* every selected list of the first profile
Watched == PostPk(1, 2)

\* A transfer that marks its reel downloaded itself when it has the whole file.
download_file_marks_downloaded ==
  /\ dl_pc = "gather"
  /\ \E k \in (1..Len(tasks)) \ finished : \E e \in TransferEnds :
       /\ finished' = finished \cup {k}
       /\ results' = [results EXCEPT ![k].success = (e = "complete")]
       /\ IF tasks[k].type = "video"
          THEN /\ video_file' = IF e = "none" THEN video_file
                                ELSE [video_file EXCEPT ![tasks[k].pk] = e]
               /\ UNCHANGED thumb_file
          ELSE /\ thumb_file' = IF e = "none" THEN thumb_file
                                ELSE [thumb_file EXCEPT ![tasks[k].pk] = TRUE]
               /\ UNCHANGED video_file
       /\ reels_table' = IF tasks[k].type = "video" /\ e = "complete"
                          THEN mark_reel_as_downloaded(reels_table, tasks[k].pk)
                          ELSE reels_table
       /\ failed_transfers' =
            IF tasks[k] = [pk |-> Watched, type |-> "video"] /\ e # "complete"
            THEN Min(failed_transfers + 1, 2)
            ELSE failed_transfers
  /\ UNCHANGED <<crawlVars, reattempted, dl_pc, user_reel_map,
                 reels_to_skip, uidx, reel_ids_to_download, i, reels_in_batch, j, tasks,
                 ridx, failed_video_pks, consecutive_video_failures, any_downloaded>>

\* Transfers whose results are collected in the order in which they end.
download_file_completion_order ==
  /\ dl_pc = "gather"
  /\ \E k \in (1..Len(tasks)) \ finished : \E e \in TransferEnds :
       /\ finished' = finished \cup {k}
       /\ results' = [results EXCEPT ![Cardinality(finished) + 1] =
                        [pk |-> tasks[k].pk, type |-> tasks[k].type,
                         success |-> (e = "complete")]]
       /\ IF tasks[k].type = "video"
          THEN /\ video_file' = IF e = "none" THEN video_file
                                ELSE [video_file EXCEPT ![tasks[k].pk] = e]
               /\ UNCHANGED thumb_file
          ELSE /\ thumb_file' = IF e = "none" THEN thumb_file
                                ELSE [thumb_file EXCEPT ![tasks[k].pk] = TRUE]
               /\ UNCHANGED video_file
       /\ failed_transfers' =
            IF tasks[k] = [pk |-> Watched, type |-> "video"] /\ e # "complete"
            THEN Min(failed_transfers + 1, 2)
            ELSE failed_transfers
  /\ UNCHANGED <<crawlVars, reels_table, reattempted, dl_pc, user_reel_map,
                 reels_to_skip, uidx, reel_ids_to_download, i, reels_in_batch, j, tasks,
                 ridx, failed_video_pks, consecutive_video_failures, any_downloaded>>

\* download_file, lines 20-38: one of the concurrent transfers ends
download_file ==
  /\ dl_pc = "gather"
  /\ \E k \in (1..Len(tasks)) \ finished : \E e \in TransferEnds :
       /\ finished' = finished \cup {k}
       /\ results' = [results EXCEPT ![k].success = (e = "complete")]
       /\ IF tasks[k].type = "video"
          THEN /\ video_file' = IF e = "none" THEN video_file
                                ELSE [video_file EXCEPT ![tasks[k].pk] = e]
               /\ UNCHANGED thumb_file
          ELSE /\ thumb_file' = IF e = "none" THEN thumb_file
                                ELSE [thumb_file EXCEPT ![tasks[k].pk] = TRUE]
               /\ UNCHANGED video_file
       /\ failed_transfers' =
            IF tasks[k] = [pk |-> Watched, type |-> "video"] /\ e # "complete"
            THEN Min(failed_transfers + 1, 2)
            ELSE failed_transfers
  /\ UNCHANGED <<crawlVars, reels_table, reattempted, dl_pc, user_reel_map,
                 reels_to_skip, uidx, reel_ids_to_download, i, reels_in_batch, j, tasks,
                 ridx, failed_video_pks, consecutive_video_failures, any_downloaded>>

\* A filter that lets every result through.
IsAnyResult(res) == res.type \in {"video", "thumbnail"}

\* process_user, line 76: r['type'] == 'video'
IsVideo(res) == res.type = "video"
video_results == SelectSeq(results, IsVideo)

\* the transfers asyncio.gather has started (line 74) and that have not ended
InFlight == IF dl_pc = "gather" THEN (1..Len(tasks)) \ finished ELSE {}

\* HandleResult, but a success forgets the failures before it without marking
\* them
HandleResultDropsStreak ==
  /\ dl_pc = "gather"
  /\ finished = 1..Len(tasks)
  /\ ridx <= Len(video_results)
  /\ LET res == video_results[ridx]
     IN IF ~res.success
        THEN /\ failed_video_pks' = Append(failed_video_pks, res.pk)
             /\ consecutive_video_failures' = consecutive_video_failures + 1
             /\ IF consecutive_video_failures + 1 >= pause_after
                THEN dl_pc' = "cooldown" /\ UNCHANGED ridx
                ELSE ridx' = ridx + 1 /\ UNCHANGED dl_pc
             /\ UNCHANGED <<reels_table, any_downloaded, reattempted>>
        ELSE /\ reels_table' = mark_reel_as_downloaded(reels_table, res.pk)
             /\ reattempted' = reattempted \cup {p \in {res.pk} : Terminal(p)}
             /\ failed_video_pks' = <<>>
             /\ any_downloaded' = TRUE
             /\ consecutive_video_failures' = 0
             /\ ridx' = ridx + 1
             /\ UNCHANGED dl_pc
  /\ UNCHANGED <<crawlVars, fileVars, failed_transfers, user_reel_map, reels_to_skip,
                 uidx, reel_ids_to_download, i, reels_in_batch, j, tasks, results,
                 finished>>

\* process_user, lines 78-97: the next video result, in task order.  The third
\* failure in a row suspends the handler in asyncio.sleep with the counter at
\* pause_after.
HandleResult ==
  /\ dl_pc = "gather"
  /\ finished = 1..Len(tasks)
  /\ ridx <= Len(video_results)
  /\ LET res == video_results[ridx]
     IN IF ~res.success
        THEN /\ failed_video_pks' = Append(failed_video_pks, res.pk)
             /\ consecutive_video_failures' = consecutive_video_failures + 1
             /\ IF consecutive_video_failures + 1 >= pause_after
                THEN dl_pc' = "cooldown" /\ UNCHANGED ridx
                ELSE ridx' = ridx + 1 /\ UNCHANGED dl_pc
             /\ UNCHANGED <<reels_table, any_downloaded, reattempted>>
        ELSE /\ reels_table' =
                  mark_reel_as_downloaded(MarkFailed(reels_table, failed_video_pks), res.pk)
             /\ reattempted' =
                  reattempted \cup {p \in Range(failed_video_pks) : Terminal(p)}
                             \cup {p \in {res.pk} : Terminal(p)}
             /\ failed_video_pks' = <<>>
             /\ any_downloaded' = TRUE
             /\ consecutive_video_failures' = 0
             /\ ridx' = ridx + 1
             /\ UNCHANGED dl_pc
  /\ UNCHANGED <<crawlVars, fileVars, failed_transfers, user_reel_map, reels_to_skip,
                 uidx, reel_ids_to_download, i, reels_in_batch, j, tasks, results,
                 finished>>

\* Cooldown, but the counter is not restarted
CooldownKeepsCounter ==
  /\ dl_pc = "cooldown"
  /\ ridx' = ridx + 1
  /\ dl_pc' = "gather"
  /\ UNCHANGED <<crawlVars, reels_table, fileVars, dlObs, user_reel_map, reels_to_skip,
                 uidx, reel_ids_to_download, i, reels_in_batch, j, tasks, results,
                 finished, failed_video_pks, any_downloaded,
                 consecutive_video_failures>>

\* process_user, lines 86-88: the pause is over, the counter restarts and the
\* next result follows; failed_video_pks is left as it is
Cooldown ==
  /\ dl_pc = "cooldown"
  /\ consecutive_video_failures' = 0
  /\ ridx' = ridx + 1
  /\ dl_pc' = "gather"
  /\ UNCHANGED <<crawlVars, reels_table, fileVars, dlObs, user_reel_map, reels_to_skip,
                 uidx, reel_ids_to_download, i, reels_in_batch, j, tasks, results,
                 finished, failed_video_pks, any_downloaded>>

\* BatchEnd, but the loop goes on without awaiting the transfers
BatchEndEarly ==
  /\ dl_pc = "gather"
  /\ dl_pc' = "while"
  /\ UNCHANGED <<crawlVars, reels_table, fileVars, dlObs, user_reel_map,
                 reels_to_skip, uidx, reel_ids_to_download, i, reels_in_batch, j, tasks,
                 results, finished, ridx, failed_video_pks, consecutive_video_failures,
                 any_downloaded>>

\* process_user, line 78: the results of the batch are used up
BatchEnd ==
  /\ dl_pc = "gather"
  /\ finished = 1..Len(tasks)
  /\ ridx > Len(video_results)
  /\ dl_pc' = "while"
  /\ UNCHANGED <<crawlVars, reels_table, fileVars, dlObs, user_reel_map,
                 reels_to_skip, uidx, reel_ids_to_download, i, reels_in_batch, j, tasks,
                 results, finished, ridx, failed_video_pks, consecutive_video_failures,
                 any_downloaded>>

\* ProcessUserReturns, but the failures still open are not marked
ProcessUserReturnsNoFlush ==
  /\ dl_pc = "while"
  /\ i >= Len(reel_ids_to_download)
  /\ dl_pc' = "user"
  /\ uidx' = uidx + 1
  /\ ProcessUser0
  /\ UNCHANGED <<crawlVars, reels_table, fileVars, dlObs, user_reel_map, reels_to_skip>>

\* process_user, lines 99-104, and main, lines 143-150: the failures still open
\* are marked unavailable and the next user follows
ProcessUserReturns ==
  /\ dl_pc = "while"
  /\ i >= Len(reel_ids_to_download)
  /\ reels_table' = MarkFailed(reels_table, failed_video_pks)
  /\ reattempted' = reattempted \cup {p \in Range(failed_video_pks) : Terminal(p)}
  /\ dl_pc' = "user"
  /\ uidx' = uidx + 1
  /\ ProcessUser0
  /\ UNCHANGED <<crawlVars, fileVars, failed_transfers, user_reel_map, reels_to_skip>>

\* The process is terminated from outside.  A transfer that was under way may
\* have left a part of its file.
DownloadKill ==
  /\ ~DLStopped
  /\ \E cut \in SUBSET (IF dl_pc = "gather" THEN (1..Len(tasks)) \ finished ELSE {}) :
       /\ video_file' = [p \in AllPks |->
                           IF \E k \in cut : tasks[k].pk = p /\ tasks[k].type = "video"
                           THEN "partial" ELSE video_file[p]]
       /\ thumb_file' = [p \in AllPks |->
                           thumb_file[p]
                           \/ \E k \in cut : tasks[k].pk = p /\ tasks[k].type = "thumbnail"]
  /\ dl_pc' = "killed"
  /\ user_reel_map' = <<>>
  /\ reels_to_skip' = {}
  /\ uidx' = 0
  /\ ProcessUser0
  /\ UNCHANGED <<crawlVars, reels_table, dlObs>>

NextDL ==
  \/ DownloadMain
  \/ NextUser
  \/ DownloadMainReturns
  \/ BatchStart
  \/ ExamineReel
  \/ Gather
  \/ download_file
  \/ HandleResult
  \/ Cooldown
  \/ BatchEnd
  \/ ProcessUserReturns
  \/ DownloadKill

SpecDL == InitDL /\ [][NextDL]_vars

(***************************************************************************)
(* Properties of the download manager.                                     *)
(***************************************************************************)
\* C5: no post ever has both downloaded and video_unavailable set.
C5_DownloadedXorUnavailable ==
  \A p \in AllPks : ~(reels_table[p].downloaded /\ reels_table[p].video_unavailable)

\* C6: no transfer is issued for, and no mark is written to, a post whose
\* downloaded or video_unavailable flag is already set.
C6_TerminalNeverReattempted ==
  reattempted = {}

Unavailable == {p \in AllPks : reels_table[p].video_unavailable}

\* C14: when a video transfer succeeds while a failure streak is open, exactly
\* the ids of the streak (every failure since the last success or the start of
\* the account, those before a pause included) are marked unavailable, the id
\* that succeeded is marked downloaded, the streak is emptied and the counter is
\* 0; no other flag of any post changes.
C14_SuccessFlushesStreak ==
  [][(/\ dl_pc = "gather"
      /\ finished = 1..Len(tasks)
      /\ ridx <= Len(video_results)
      /\ video_results[ridx].success
      /\ failed_video_pks # <<>>
      /\ dl_pc' # "killed") =>
       LET X == video_results[ridx].pk
       IN /\ \A p \in AllPks :
               reels_table'[p] =
                 [reels_table[p] EXCEPT
                    !.video_unavailable = @ \/ p \in Range(failed_video_pks),
                    !.downloaded = @ \/ p = X]
          /\ failed_video_pks' = <<>>
          /\ consecutive_video_failures' = 0]_vars

\* the first account of a run that found nothing to skip: a success has just
\* been handled, and a streak of at least pause_after ids has been flushed
C14_Witness ==
  /\ dl_pc = "gather"
  /\ uidx = 1
  /\ reels_to_skip = {}
  /\ finished = 1..Len(tasks)
  /\ ridx > 1
  /\ ridx - 1 <= Len(video_results)
  /\ video_results[ridx - 1].success
  /\ reels_table[video_results[ridx - 1].pk].downloaded
  /\ failed_video_pks = <<>>
  /\ consecutive_video_failures = 0
  /\ Cardinality(Unavailable) >= pause_after

\* C15 as stated: for a work-list id whose video file is already on local
\* storage no request at all is queued, and the id is marked downloaded.
C15_ExistingFileNoRequest ==
  [][(/\ dl_pc = "batch"
      /\ j <= Len(reels_in_batch)
      /\ j' = j + 1
      /\ video_file[reels_in_batch[j]] # "none") =>
       (/\ tasks' = tasks
        /\ reels_table'[reels_in_batch[j]].downloaded)]_vars

\* C15: for a work-list id whose video file is already on local storage no
\* video transfer is queued and the id is marked downloaded; the only request
\* that may be queued for it is its thumbnail, when the thumbnail file is
\* missing and a thumbnail_url is stored.
C15_ExistingFileNoVideoTransfer ==
  [][(/\ dl_pc = "batch"
      /\ j <= Len(reels_in_batch)
      /\ j' = j + 1
      /\ video_file[reels_in_batch[j]] # "none") =>
       LET X == reels_in_batch[j]
       IN /\ reels_table'[X].downloaded
          /\ tasks' = IF ~thumb_file[X] /\ get_reel_thumbnail_url(X)
                      THEN Append(tasks, [pk |-> X, type |-> "thumbnail"])
                      ELSE tasks]_vars

\* the first id of a batch had its video file and no thumbnail: it is marked
\* downloaded and the thumbnail alone is queued
C15_Witness ==
  /\ dl_pc = "batch"
  /\ j = 2
  /\ video_file[reels_in_batch[1]] # "none"
  /\ reels_table[reels_in_batch[1]].downloaded
  /\ tasks = <<[pk |-> reels_in_batch[1], type |-> "thumbnail"]>>

\* C16: at most max_concurrent transfers are in flight at any moment.
C16_AtMostMaxConcurrentInFlight ==
  Cardinality(InFlight) <= max_concurrent

\* every video result of the batch is written: a success is marked downloaded,
\* a failure is in the streak or already marked unavailable
Classified ==
  \A k \in 1..Len(results) :
    results[k].type = "video" =>
      IF results[k].success
      THEN reels_table[results[k].pk].downloaded
      ELSE \/ results[k].pk \in Range(failed_video_pks)
           \/ reels_table[results[k].pk].video_unavailable

C18_UnavailableOnlyAfterRepeatedFailure ==
  reels_table[Watched].video_unavailable => failed_transfers >= 2

\* C19: when the work-list of an account is finished, every id whose video
\* transfer failed has been marked unavailable (the streak still open at the
\* end included) and every id whose transfer succeeded has been marked
\* downloaded; no id a transfer was issued for is left pending.
C19_WorkListEndsSettled ==
  /\ [][(/\ dl_pc = "gather"
         /\ finished = 1..Len(tasks)
         /\ ridx <= Len(video_results)
         /\ dl_pc' # "killed") =>
          IF video_results[ridx].success
          THEN reels_table'[video_results[ridx].pk].downloaded
          ELSE video_results[ridx].pk \in Range(failed_video_pks')]_vars
  /\ [][dl_pc' # "killed" =>
          \A p \in Range(failed_video_pks) \ Range(failed_video_pks') :
            reels_table'[p].video_unavailable]_vars
  /\ [][(dl_pc = "while" /\ dl_pc' = "user") =>
          /\ Range(failed_video_pks) \subseteq {p \in AllPks : reels_table'[p].video_unavailable}
          /\ \A p \in Range(reel_ids_to_download) :
               (get_reel_video_url(p) \/ video_file[p] # "none") =>
                 (reels_table'[p].downloaded \/ reels_table'[p].video_unavailable)]_vars

\* the last batch of a work-list is over with a success behind and failures
\* still open
C19_Witness ==
  /\ dl_pc = "while"
  /\ i >= Len(reel_ids_to_download)
  /\ reel_ids_to_download # <<>>
  /\ failed_video_pks # <<>>
  /\ any_downloaded

\* C20: the consecutive-failure counter never exceeds pause_after - 1 once a
\* result is handled: the third failure in a row triggers one pause and
\* restarts the counter while the failed ids stay in the streak and the
\* remaining results and batches are still processed; after any result the
\* counter equals the streak length modulo pause_after.
C20_CounterFollowsStreak ==
  /\ [](dl_pc # "cooldown" =>
          /\ consecutive_video_failures <= pause_after - 1
          /\ consecutive_video_failures = Len(failed_video_pks) % pause_after)
  /\ [](dl_pc = "cooldown" =>
          /\ consecutive_video_failures = pause_after
          /\ failed_video_pks # <<>>
          /\ Len(failed_video_pks) % pause_after = 0)
  /\ [][(/\ dl_pc = "gather"
         /\ consecutive_video_failures = pause_after - 1
         /\ Len(failed_video_pks') > Len(failed_video_pks)) =>
          dl_pc' = "cooldown"]_vars
  /\ [][(dl_pc = "cooldown" /\ dl_pc' # "killed") =>
          /\ dl_pc' = "gather"
          /\ consecutive_video_failures' = 0
          /\ ridx' = ridx + 1
          /\ UNCHANGED <<failed_video_pks, reels_table, reel_ids_to_download, i,
                         results, finished>>]_vars

\* the pause after the third failure in a row is over: the counter is 0 and
\* the streak keeps its pause_after ids
C20_Witness ==
  /\ dl_pc = "gather"
  /\ ridx > 1
  /\ consecutive_video_failures = 0
  /\ Len(failed_video_pks) = pause_after

\* C25: every write to the reels table in a download run is made by the
\* coordinator while it assembles a batch, handles the results of a batch or
\* ends the work-list: never while a transfer is in flight.
C25_WritesOnlyByCoordinator ==
  [][reels_table' # reels_table =>
       /\ InFlight = {}
       /\ InFlight' = {}
       /\ dl_pc \in {"batch", "gather", "while"}]_vars

\* all transfers of a batch of several have ended and the first result has
\* been written
C25_Witness ==
  /\ dl_pc = "gather"
  /\ Len(tasks) > 1
  /\ InFlight = {}
  /\ ridx = 2
  /\ reels_table[video_results[1].pk].downloaded
  /\ video_results[1].success

\* the acquisition state a batch's results are classified into
Acquisition == <<reels_table, failed_video_pks, consecutive_video_failures, any_downloaded>>

\* C33: the flags, the failure streak and the counter do not depend on the order
\* in which the transfers of a batch end. While a transfer is in flight nothing
\* of the acquisition state changes and no result is classified; a transfer that
\* ends writes only its own slot of the results, whichever transfers ended
\* before it, so that the results stand in task order (which is work-list
\* order) and each video result tells what its own transfer left on disk; and
\* the results are then classified one by one in that order, each step being
\* determined by the result at hand.
C33_ClassifiedInWorkListOrder ==
  /\ [][(InFlight # {} /\ dl_pc' # "killed") => UNCHANGED <<Acquisition, ridx>>]_vars
  /\ [][(dl_pc = "gather" /\ finished' # finished /\ dl_pc' = "gather") =>
          \E k \in InFlight :
            /\ finished' = finished \cup {k}
            /\ \A n \in (1..Len(tasks)) \ {k} : results'[n] = results[n]]_vars
  /\ [](dl_pc \in {"gather", "cooldown"} =>
          /\ Len(results) = Len(tasks)
          /\ \A k \in 1..Len(tasks) :
               /\ results[k].pk = tasks[k].pk
               /\ results[k].type = tasks[k].type
               /\ (k \in finished /\ tasks[k].type = "video") =>
                    (results[k].success = (video_file[tasks[k].pk] = "complete"))
          /\ \A a, b \in 1..Len(tasks) :
               a < b => \E m, n \in 1..Len(reels_in_batch) :
                          /\ m <= n
                          /\ reels_in_batch[m] = tasks[a].pk
                          /\ reels_in_batch[n] = tasks[b].pk)
  /\ [][(dl_pc = "gather" /\ dl_pc' \in {"gather", "cooldown"}
            /\ <<Acquisition, ridx>>' # <<Acquisition, ridx>>) =>
          /\ InFlight = {}
          /\ ridx <= Len(video_results)
          /\ LET res == video_results[ridx]
             IN IF res.success
                THEN /\ reels_table'[res.pk].downloaded
                     /\ \A p \in Range(failed_video_pks) : reels_table'[p].video_unavailable
                     /\ failed_video_pks' = <<>>
                     /\ consecutive_video_failures' = 0
                     /\ ridx' = ridx + 1
                ELSE /\ failed_video_pks' = Append(failed_video_pks, res.pk)
                     /\ consecutive_video_failures' = consecutive_video_failures + 1
                     /\ reels_table' = reels_table
                     /\ ridx' \in {ridx, ridx + 1}]_vars

\* a later video transfer of the batch has ended with success while an earlier
\* one is still in flight
C33_Witness ==
  /\ dl_pc = "gather"
  /\ \E a, b \in 1..Len(tasks) :
       /\ a < b
       /\ tasks[a].type = "video" /\ tasks[b].type = "video"
       /\ a \in InFlight
       /\ b \in finished
       /\ results[b].success

\* C34: a post is marked downloaded only if a complete media file for it is on
\* local storage; a transfer interrupted after its file was created never leads
\* to the mark, in that run or a later one.
C34_DownloadedOnlyWithCompleteFile ==
  \A p \in AllPks : reels_table[p].downloaded => video_file[p] = "complete"

\* the results of the batch with the outcome of every thumbnail transfer reversed
ThumbnailsReversed ==
  [k \in 1..Len(results) |->
     IF results[k].type = "thumbnail" THEN [results[k] EXCEPT !.success = ~@]
     ELSE results[k]]

\* C36: the outcome of a thumbnail transfer never affects the acquisition state.
\* The end of a thumbnail transfer changes no flag, streak or counter; the
\* results that are classified are the same whatever the thumbnail transfers
\* returned; and every classification step is about a video result and touches
\* only flags of that post and of the posts of the streak.
C36_ThumbnailOutcomeIgnored ==
  /\ [][(dl_pc = "gather" /\ dl_pc' = "gather"
            /\ \E k \in finished' \ finished : tasks[k].type = "thumbnail") =>
          UNCHANGED <<Acquisition, ridx>>]_vars
  /\ [](dl_pc \in {"gather", "cooldown"} =>
          video_results = SelectSeq(ThumbnailsReversed, IsVideo))
  /\ [][(dl_pc = "gather" /\ dl_pc' \in {"gather", "cooldown"}
            /\ Acquisition' # Acquisition) =>
          /\ ridx <= Len(video_results)
          /\ video_results[ridx].type = "video"
          /\ \A p \in AllPks :
               reels_table'[p] # reels_table[p] =>
                 p = video_results[ridx].pk \/ p \in Range(failed_video_pks)]_vars

\* a batch is classified in which a thumbnail transfer failed while the video
\* of the same post arrived: the post is downloaded and the streak is empty
C36_Witness ==
  /\ dl_pc = "gather"
  /\ InFlight = {}
  /\ ridx > Len(video_results)
  /\ failed_video_pks = <<>>
  /\ consecutive_video_failures = 0
  /\ \E a, b \in 1..Len(tasks) :
       /\ tasks[a].type = "video" /\ tasks[b].type = "thumbnail"
       /\ tasks[a].pk = tasks[b].pk
       /\ results[a].success /\ ~results[b].success
       /\ reels_table[tasks[a].pk].downloaded
       /\ ~reels_table[tasks[a].pk].video_unavailable

\* the stored posts without a media URL
NoUrl == {p \in AllPks : reels_table[p].present /\ ~reels_table[p].video_url}

\* C37: a work-list id that has no stored media URL and no local file gets no
\* video transfer and no flag change and has no effect on the streak or the
\* counter: it is never in a video task, never among the failed ids, never gets
\* a file or a flag. It stays pending: a run that starts does not put it into
\* the skip set, and it is in the work-list of every user whose selected list
\* names it.
C37_NoUrlStaysPending ==
  /\ [](\A p \in NoUrl :
          /\ video_file[p] = "none"
          /\ ~reels_table[p].downloaded /\ ~reels_table[p].video_unavailable
          /\ p \notin Range(failed_video_pks)
          /\ p \notin reels_to_skip
          /\ \A k \in 1..Len(tasks) : tasks[k].type = "video" => tasks[k].pk # p)
  /\ [][(dl_pc = "batch" /\ j <= Len(reels_in_batch) /\ reels_in_batch[j] \in NoUrl
            /\ dl_pc' # "killed") =>
          UNCHANGED <<Acquisition, video_file>>]_vars
  /\ [](dl_pc \in {"while", "batch", "gather", "cooldown"} =>
          \A p \in NoUrl \cap Range(user_reel_map[uidx].pks) :
            p \in Range(reel_ids_to_download))

\* a later run: the other ids of the list were settled by an earlier run and
\* are skipped, the id without a media URL is in the work-list again
C37_Witness ==
  /\ dl_pc = "while"
  /\ i >= Len(reel_ids_to_download)
  /\ Range(reel_ids_to_download) \cap NoUrl # {}
  /\ Range(user_reel_map[uidx].pks) \cap reels_to_skip # {}
  /\ failed_video_pks = <<>>
  /\ consecutive_video_failures = 0

(***************************************************************************)
(* The store operations called on their own, in any order and with any     *)
(* arguments of a small domain.                                            *)
(***************************************************************************)
StorePks == {PostPk(1, 1), PostPk(1, 2)}
StoreOwners == {1, 2}
\* a later response for the same clip: one more play, and the video_url has
\* appeared or gone
Changed(m) == [m EXCEPT !.play_count = @ + 1, !.video_url = ~@]
StoreMedia == MediaOf(StorePks) \cup {Changed(m) : m \in MediaOf(StorePks)}
\* lists of media with one entry per pk
StoreReelsData == {d \in SUBSET StoreMedia : \A m \in d, n \in d : m.pk = n.pk => m = n}
StoreFollowing == {FollowPk(1, 1), FollowPk(1, 2)}

InitStore == Init

CallSaveReels ==
  /\ \E d \in StoreReelsData, o \in StoreOwners :
       /\ IF d = {} THEN UNCHANGED reels_table ELSE save_reels(d, o)
       /\ call' = [NoCall EXCEPT !.op = "save_reels", !.reels_data = d, !.user_pk = o]
  /\ UNCHANGED <<acctVars, following_table, memVars, obsVars, dlVars, afterFull>>

CallSaveFollowing ==
  /\ \E d \in SUBSET StoreFollowing, o \in {Pk("a1")} :
       /\ IF d = {} THEN UNCHANGED following_table ELSE save_following(d, o)
       /\ call' = [NoCall EXCEPT !.op = "save_following", !.following_data = d,
                                 !.user_pk = o]
  /\ UNCHANGED <<acctVars, reels_table, memVars, obsVars, dlVars, afterFull>>

CallMarkDownloaded ==
  /\ \E p \in StorePks :
       /\ reels_table' = mark_reel_as_downloaded(reels_table, p)
       /\ call' = [NoCall EXCEPT !.op = "mark_reel_as_downloaded", !.pk = p]
  /\ UNCHANGED <<acctVars, following_table, memVars, obsVars, dlVars, afterFull>>

CallMarkUnavailable ==
  /\ \E p \in StorePks :
       /\ reels_table' = mark_reel_as_unavailable(reels_table, p)
       /\ call' = [NoCall EXCEPT !.op = "mark_reel_as_unavailable", !.pk = p]
  /\ UNCHANGED <<acctVars, following_table, memVars, obsVars, dlVars, afterFull>>

NextStore ==
  \/ CallSaveReels
  \/ CallSaveFollowing
  \/ CallMarkDownloaded
  \/ CallMarkUnavailable

SpecStore == InitStore /\ [][NextStore]_vars

(***************************************************************************)
(* Properties of the store operations.                                     *)
(***************************************************************************)
\* the medium of the call that carries pk p
Saved(p) == CHOOSE m \in call'.reels_data : m.pk = p
InCall(p) == \E m \in call'.reels_data : m.pk = p

\* C21 as stated: save_reels keeps one row per pk; on conflict with an
\* existing row only the engagement fields change: downloaded,
\* video_unavailable, user_pk and video_url are left as they were.
C21_ConflictKeepsMediaUrl ==
  [][call'.op = "save_reels" =>
       \A p \in AllPks :
         (InCall(p) /\ reels_table[p].present) =>
           /\ reels_table'[p].downloaded = reels_table[p].downloaded
           /\ reels_table'[p].video_unavailable = reels_table[p].video_unavailable
           /\ reels_table'[p].user_pk = reels_table[p].user_pk
           /\ reels_table'[p].video_url = reels_table[p].video_url]_vars

\* C21: save_reels keeps one row per pk; a pk without a row gets one with the
\* owner of the call and both flags false; on conflict with an existing row
\* play_count, video_url and thumbnail_url take the values of the call while
\* downloaded, video_unavailable and user_pk are left as they were; rows of
\* other pks are untouched.
C21_ConflictUpdatesCountsAndUrls ==
  [][call'.op = "save_reels" =>
       \A p \in AllPks :
         IF ~InCall(p) THEN reels_table'[p] = reels_table[p]
         ELSE /\ reels_table'[p].present
              /\ reels_table'[p].play_count = Saved(p).play_count
              /\ reels_table'[p].video_url = Saved(p).video_url
              /\ reels_table'[p].thumbnail_url = Saved(p).thumbnail_url
              /\ IF reels_table[p].present
                 THEN /\ reels_table'[p].downloaded = reels_table[p].downloaded
                      /\ reels_table'[p].video_unavailable =
                           reels_table[p].video_unavailable
                      /\ reels_table'[p].user_pk = reels_table[p].user_pk
                 ELSE /\ ~reels_table'[p].downloaded
                      /\ ~reels_table'[p].video_unavailable
                      /\ reels_table'[p].user_pk = call'.user_pk]_vars

\* a save has met a row that is marked downloaded and belongs to another
\* owner: the row keeps both and carries the video_url of the call
C21_Witness ==
  /\ call.op = "save_reels"
  /\ \E m \in call.reels_data :
       /\ reels_table[m.pk].downloaded
       /\ reels_table[m.pk].user_pk # call.user_pk
       /\ reels_table[m.pk].play_count = m.play_count
       /\ reels_table[m.pk].video_url = m.video_url

CallPairs == {<<call'.user_pk, f>> : f \in call'.following_data}

\* C22: inserting follow edges is idempotent: a pair that exists is skipped
\* without an error and without a change, the other pairs of the call are
\* inserted, and no pair is ever removed.
C22_InsertEdgesIdempotent ==
  /\ [][following_table \subseteq following_table']_vars
  /\ [][call'.op = "save_following" =>
          /\ following_table' = following_table \cup CallPairs
          /\ (CallPairs \subseteq following_table => UNCHANGED following_table)]_vars

\* a call with two edges has been made, and its edges are in the table once
C22_Witness ==
  /\ call.op = "save_following"
  /\ call.following_data = StoreFollowing
  /\ following_table = {<<call.user_pk, f>> : f \in StoreFollowing}

====
